---- MODULE Spec2Model ----
(***************************************************************************)
(* Order lifecycle and inventory locking of the trading service            *)
(* (csgo2-trading-bot/backend/services/trading/trading_service.go).        *)
(*                                                                         *)
(* The database is the shared state: the orders, inventories and           *)
(* transactions tables.  Every action is one database statement of a       *)
(* handler together with the local computation that precedes it, so the    *)
(* interleavings of the model are the interleavings of statements that     *)
(* concurrent requests and the per-order goroutines can produce.           *)
(*                                                                         *)
(* Money: prices are whole currency units; amount, fee and profit of a     *)
(* transaction are kept in thousandths of a unit so that the 2.5% fee is   *)
(* exact (28.0 is 28000).                                                  *)
(***************************************************************************)
EXTENDS Integers, Sequences, FiniteSets, Bags, TLC

\* ------------------------------------------------------------------ bounds

MaxOrders == 2

\* ------------------------------------------------------------ input domains

\* One run of the service: the database it starts on (prior = 1: the one an
\* earlier run left, see InitPrior), the arguments its requests take, and
\* whether db.Create can fail.  Each run varies some of the arguments, so that
\* together they cover two owners, two prices, two quantities, a supported, a
\* disabled and an unsupported venue and a failing insert without the product
\* of all of them.
UserIDs == <<1, 2>>

Owner == UserIDs[1]

Stranger == UserIDs[2]

Items == {1}

Runs ==
    { [prior |-> 1, users |-> {Owner}, prices |-> {80}, quantities |-> {1},
       platforms |-> {"steam", "other"}, dbFails |-> {FALSE}],
      [prior |-> 0, users |-> {Owner}, prices |-> {50},
       quantities |-> {1, 2}, platforms |-> {"steam"}, dbFails |-> {FALSE}],
      [prior |-> 0, users |-> {Owner, Stranger}, prices |-> {50},
       quantities |-> {2}, platforms |-> {"buff"},
       dbFails |-> {FALSE, TRUE}] }

OrderTypes == {"buy", "sell"}

Terminal == {"completed", "failed", "cancelled"}

\* The error texts of the handlers.
ErrInsufficientInventory == "insufficient inventory"

ErrUnauthorized == "unauthorized"

ErrNotCancellable == "order cannot be cancelled"

ErrUnsupportedPlatform == "unsupported platform"

ErrRecordNotFound == "record not found"

ErrDatabase == "database error"

NoError == ""

\* ------------------------------------------------------------------- state

VARIABLES
    env,           \* the database the service starts on and the requests it gets
    config,        \* TradingConfig: which venue connectors are enabled
    orders,        \* orders table: sequence of rows, the index is the ID
    inventory,     \* inventories table: set of (not deleted) rows
    invSeq,        \* last ID given to an inventories row
    transactions,  \* transactions table: set of rows
    exec,          \* per order: the executeBuyOrder/executeSellOrder goroutine
    sellCalls,     \* bag of the CreateSellOrder calls between their statements
    cancelCalls,   \* per order: a CancelOrder call between its statements
    reservation,   \* observation: per sell order, what its creation saw
    cancelledOk    \* observation: orders for which CancelOrder returned nil

\* The strategy executors of the same service (ActivateStrategy, runStrategy).
VARIABLES
    strategies,    \* strategies table: sequence of rows, the index is the ID
    tasks          \* the runStrategy goroutines ever started, in start order

\* The automated trader (internal/services/trading/trading_service.go).
VARIABLES
    traderStrategies, \* its strategies table: sequence of rows, index is the ID
    trades,           \* its trades table: sequence of rows, the index is the ID
    apiEvals,         \* bag of ExecuteStrategy calls of the API between statements
    loop              \* the RunAutomatedTrading goroutine

\* The broadcast hub (csgo2-trading-bot/backend/api/middleware.go).
VARIABLES
    hub,           \* the Hub.Run goroutine and its clients map
    clients,       \* per connection: the Client, its send channel and its pumps
    pending,       \* the messages whose publishers wait at hub.broadcast <- data
    published,     \* observation: the messages the hub received, in order
    crashed        \* a goroutine panicked: the process is gone

\* The arbitrage detector (internal/services/price/price_service.go).
VARIABLES
    detector       \* one GetArbitrageOpportunities call: its input and its loops

\* The price table (internal/services/price/price_service.go).
VARIABLES
    priceRows,     \* the rows of the prices table of one item, by ID
    latestResult   \* what the last GetLatestPrices call returned

\* The market service (csgo2-trading-bot/backend/services/market).
VARIABLES
    currentPrice,  \* items.current_price of one item
    priceHistory,  \* the prices of the item's price_histories rows, by ID
    cache,         \* the price under the Redis key item:price:<id>, if any
    updateCalls,   \* the UpdateItemPrice calls between their statements
    observed       \* observation: what the last GetRealtimePrice returned

\* The market analysis (csgo2-trading-bot/backend/services/market).
VARIABLES
    analysis       \* one call of an analysis function: its series, its result

orderVars == <<env, config, orders, inventory, invSeq, transactions, exec,
               sellCalls, cancelCalls, reservation, cancelledOk>>

strategyVars == <<strategies, tasks>>

traderVars == <<traderStrategies, trades, apiEvals, loop>>

hubVars == <<hub, clients, pending, published, crashed>>

priceVars == <<priceRows, latestResult>>

marketVars == <<currentPrice, priceHistory, cache, updateCalls, observed>>

\* The variables of the price and market services.
serviceVars == <<priceVars, marketVars, analysis>>

\* What the order handlers and goroutines never touch, and the same for the
\* strategy executors, for the automated trader and for the hub.
outside == <<strategyVars, traderVars, hubVars, detector, serviceVars>>

outsideStrategies == <<orderVars, traderVars, hubVars, detector, serviceVars>>

outsideTrader == <<orderVars, strategyVars, hubVars, detector, serviceVars>>

outsideHub == <<orderVars, strategyVars, traderVars, detector, serviceVars>>

outsideDetector == <<orderVars, strategyVars, traderVars, hubVars, serviceVars>>

outsidePrices ==
    <<orderVars, strategyVars, traderVars, hubVars, detector, marketVars,
      analysis>>

outsideMarket ==
    <<orderVars, strategyVars, traderVars, hubVars, detector, priceVars,
      analysis>>

outsideAnalysis ==
    <<orderVars, strategyVars, traderVars, hubVars, detector, priceVars,
      marketVars>>

vars == <<orderVars, strategyVars, traderVars, hubVars, detector, serviceVars>>

\* No strategy was ever created.
StrategiesIdle == strategies = <<>> /\ tasks = <<>>

\* The connections a run of the hub can see, and the capacity of a client's
\* send channel (256 in the code).
MaxClients == 1

SendCap == 1

MaxMessages == 2

ClientIds == 1..MaxClients

\* A connection that was not made yet.  Kept with a client for the claims: how
\* many messages the hub had received when it registered the client, and the
\* broadcast messages writePump has taken from the send channel and written.
NoClient ==
    [phase |-> "absent", send |-> <<>>, closed |-> FALSE, reader |-> "idle",
     writer |-> "idle", connClosed |-> FALSE, joined |-> 0, wrote |-> <<>>]

\* NewHub and go hub.Run(): the hub waits in its select, nobody is connected
\* and nothing was published.
HubIdle ==
    /\ hub = [pc |-> "select", clients |-> {}]
    /\ clients = [c \in ClientIds |-> NoClient]
    /\ pending = {}
    /\ published = <<>>
    /\ crashed = FALSE

\* The prices table is empty and was not queried; a result names the rows it
\* holds and how many rows the table had.
NoResult == [called |-> FALSE]

PricesIdle == priceRows = <<>> /\ latestResult = NoResult

\* Nothing is cached and nothing was read.
NoPrice == -1

\* The item as an earlier session left it: one price was recorded, and its
\* cache entry has expired.
MarketIdle ==
    /\ currentPrice = 100
    /\ priceHistory = <<100>>
    /\ cache = NoPrice
    /\ updateCalls = EmptyBag
    /\ observed = NoPrice

\* No analysis function was called.
AnalysisIdle == analysis = [pc |-> "idle"]

ServicesIdle == PricesIdle /\ MarketIdle /\ AnalysisIdle

\* No GetArbitrageOpportunities call was made.
DetectorIdle == detector = [pc |-> "idle"]

\* The automated trader was not started and has no strategy.
TraderIdle ==
    /\ traderStrategies = <<>>
    /\ trades = <<>>
    /\ apiEvals = EmptyBag
    /\ loop = [pc |-> "off"]

OrderIds == 1..Len(orders)

IdleCall == [pc |-> "idle"]

\* ----------------------------------------------------- inventory statements

\* The rows of an owner's item.
RowsOf(userID, itemID) ==
    {r \in inventory : r.user = userID /\ r.item = itemID}

\* The rows the count of checkInventory ranges over.
CheckRowsMutant(userID, itemID, quantity) ==
    {r \in RowsOf(userID, itemID) : r.quantity >= quantity}

CheckRows(userID, itemID, quantity) ==
    {r \in RowsOf(userID, itemID) : r.quantity >= quantity /\ r.locked = FALSE}

checkInventory(userID, itemID, quantity) ==
    Cardinality(CheckRows(userID, itemID, quantity)) > 0

\* UPDATE inventories SET locked = v WHERE user_id = ? AND item_id = ?
\* (the quantity argument is not part of the statement).
SetLocked(inv, userID, itemID, v) ==
    {IF r.user = userID /\ r.item = itemID THEN [r EXCEPT !.locked = v] ELSE r
        : r \in inv}

lockInventory(inv, userID, itemID, quantity) ==
    SetLocked(inv, userID, itemID, TRUE)

unlockInventoryMutant(inv, userID, itemID, quantity) == inv

unlockInventory(inv, userID, itemID, quantity) ==
    SetLocked(inv, userID, itemID, FALSE)

addToInventoryMutant(inv, id, order) ==
    inv \cup {[id |-> id, user |-> order.user, item |-> order.item,
               quantity |-> 1, buyPrice |-> order.price,
               platform |-> order.platform, locked |-> FALSE]}

addToInventory(inv, id, order) ==
    inv \cup {[id |-> id, user |-> order.user, item |-> order.item,
               quantity |-> order.quantity, buyPrice |-> order.price,
               platform |-> order.platform, locked |-> FALSE]}

\* DELETE FROM inventories WHERE user_id = ? AND item_id = ?
removeFromInventory(inv, order) ==
    {r \in inv : ~(r.user = order.user /\ r.item = order.item)}

\* ---------------------------------------------------- recordTransaction

\* transaction.Amount, in thousandths.
Amount(order) == order.price * order.quantity * 1000

\* transaction.Fee = Amount * 0.025, in thousandths.
Fee(order) == (Amount(order) * 25) \div 1000

\* The values Scan(&buyPrice) can leave in buyPrice: it starts 0, and every row
\* the query returns overwrites it; the query has no ORDER BY, so with several
\* rows any of them can be the last.
ScannedBuyPrices(order) ==
    IF RowsOf(order.user, order.item) = {}
    THEN {0}
    ELSE {r.buyPrice : r \in RowsOf(order.user, order.item)}

Profit(order, buyPrice) ==
    IF order.type = "sell"
    THEN (order.price - buyPrice) * order.quantity * 1000 - Fee(order)
    ELSE 0

TransactionRow(id, order, buyPrice) ==
    [order |-> id, user |-> order.user, type |-> order.type,
     amount |-> Amount(order), fee |-> Fee(order),
     profit |-> Profit(order, buyPrice), platform |-> order.platform]

\* ------------------------------------------------------ venue connectors

\* The switch of executeBuyOrder / executeSellOrder: whether the venue's
\* connector function is called, and the error the switch leaves in err.  The
\* connector functions of the three venues return nil.
ConnectorInvoked(order) ==
    \/ order.platform = "buff" /\ config.buffEnabled
    \/ order.platform = "youpin" /\ config.youpinEnabled
    \/ order.platform = "steam"

ConnectorError(order) ==
    IF order.platform \in {"buff", "youpin", "steam"}
    THEN NoError
    ELSE ErrUnsupportedPlatform

\* ------------------------------------------------------------------ Init

\* A database on which the service never ran.
InitFresh ==
    /\ env \in {r \in Runs : r.prior = 0}
    /\ orders = <<>>
    /\ inventory = {}
    /\ invSeq = 0
    /\ transactions = {}
    /\ exec = <<>>
    /\ cancelCalls = <<>>
    /\ reservation = <<>>

\* The database an earlier run of the service left: the owner bought two of
\* the item at 50 on steam with order 1, which completed.
PriorOrder ==
    [user |-> Owner, item |-> 1, type |-> "buy", status |-> "completed",
     price |-> 50, quantity |-> 2, platform |-> "steam",
     failedReason |-> NoError, executed |-> TRUE]

InitPrior ==
    /\ env \in {r \in Runs : r.prior = 1}
    /\ orders = <<PriorOrder>>
    /\ inventory = addToInventory({}, 1, PriorOrder)
    /\ invSeq = 1
    /\ transactions = {TransactionRow(1, PriorOrder, 0)}
    /\ exec = <<[pc |-> "done", copy |-> [status |-> "completed",
                                          failedReason |-> NoError,
                                          executed |-> TRUE]]>>
    /\ cancelCalls = <<IdleCall>>
    /\ reservation = <<[rows |-> {}, relocked |-> FALSE]>>

\* The configuration without a configuration file: no venue is enabled.
Init ==
    /\ InitFresh \/ InitPrior
    /\ config = [buffEnabled |-> FALSE, youpinEnabled |-> FALSE]
    /\ sellCalls = EmptyBag
    /\ cancelledOk = {}
    /\ StrategiesIdle
    /\ TraderIdle
    /\ HubIdle
    /\ DetectorIdle
    /\ ServicesIdle

\* Room for one more order of this run: every order it created and every
\* CreateSellOrder call under way counts.
HasRoom == Len(orders) + BagCardinality(sellCalls) < env.prior + MaxOrders

NewOrder(userID, itemID, type, price, quantity, platform) ==
    [user |-> userID, item |-> itemID, type |-> type, status |-> "pending",
     price |-> price, quantity |-> quantity, platform |-> platform,
     failedReason |-> NoError, executed |-> FALSE]

\* db.Create(&order) followed by go s.execute...Order(&order): the goroutine
\* holds the order as created.
InsertOrder(order, seen) ==
    /\ orders' = Append(orders, order)
    /\ exec' = Append(exec, [pc |-> "start",
                             copy |-> [status |-> order.status,
                                       failedReason |-> order.failedReason,
                                       executed |-> order.executed]])
    /\ cancelCalls' = Append(cancelCalls, IdleCall)
    /\ reservation' = Append(reservation, seen)

\* ---------------------------------------------------------- CreateBuyOrder

checkUserBalance(userID, amount) == TRUE

\* What CreateBuyOrder returns as its error: lines 43-46 and 59-61.
CreateBuyOrderError(userID, price, quantity, dbFails) ==
    IF ~checkUserBalance(userID, price * quantity) THEN "insufficient balance"
    ELSE IF dbFails THEN ErrDatabase
    ELSE NoError

\* Lines 41-67.  A call that returns an error has changed nothing.
CreateBuyOrder(userID, itemID, price, quantity, platform, dbFails) ==
    /\ HasRoom
    /\ IF CreateBuyOrderError(userID, price, quantity, dbFails) # NoError
       THEN UNCHANGED vars
       ELSE /\ InsertOrder(NewOrder(userID, itemID, "buy", price, quantity,
                                    platform),
                           [rows |-> {}, relocked |-> FALSE])
            /\ UNCHANGED <<outside, env, config, inventory, invSeq, transactions,
                           sellCalls, cancelledOk>>

\* --------------------------------------------------------- CreateSellOrder

\* The calls under way with one more, with one less, and with one moved on.
Entered(call) == sellCalls (+) SetToBag({call})

Left(call) == sellCalls (-) SetToBag({call})

Moved(call, next) == Left(call) (+) SetToBag({next})

\* What the creation saw: the rows its inventory check counted.
Seen(userID, itemID, quantity) ==
    {[id |-> r.id, buyPrice |-> r.buyPrice, quantity |-> r.quantity]
        : r \in CheckRows(userID, itemID, quantity)}

\* What CreateSellOrder returns as its error when it returns at lines 72-74.
CreateSellOrderError(userID, itemID, quantity) ==
    IF ~checkInventory(userID, itemID, quantity)
    THEN ErrInsufficientInventory
    ELSE NoError

\* Lines 71-74: the inventory check.  A call that returns here has changed
\* nothing; a call that goes on holds what it was called with.
SellCheck(userID, itemID, price, quantity, platform) ==
    /\ HasRoom
    /\ IF CreateSellOrderError(userID, itemID, quantity) # NoError
       THEN UNCHANGED vars
       ELSE /\ sellCalls' = Entered(
                    [pc |-> "lock", user |-> userID, item |-> itemID,
                     price |-> price, quantity |-> quantity,
                     platform |-> platform,
                     seen |-> Seen(userID, itemID, quantity),
                     relocked |-> FALSE])
            /\ UNCHANGED <<outside, env, config, orders, inventory, invSeq,
                           transactions, exec, cancelCalls, reservation,
                           cancelledOk>>

\* Lines 76-79: lockInventory (the update reports no error).
SellLock(c) ==
    /\ BagIn(c, sellCalls)
    /\ c.pc = "lock"
    /\ inventory' = lockInventory(inventory, c.user, c.item, c.quantity)
    /\ sellCalls' = Moved(c, [c EXCEPT
            !.pc = "create",
            !.relocked = \E r \in inventory :
                /\ r.locked
                /\ \E s \in c.seen : s.id = r.id])
    /\ UNCHANGED <<outside, env, config, orders, invSeq, transactions, exec, cancelCalls,
                   reservation, cancelledOk>>

\* A CreateSellOrder that returns the error of db.Create with the lock held.
SellCreateMutant(c, dbFails) ==
    /\ BagIn(c, sellCalls)
    /\ c.pc = "create"
    /\ IF dbFails
       THEN /\ sellCalls' = Left(c)
            /\ UNCHANGED <<orders, exec, cancelCalls, reservation>>
       ELSE /\ InsertOrder(NewOrder(c.user, c.item, "sell", c.price,
                                    c.quantity, c.platform),
                           [rows |-> c.seen, relocked |-> c.relocked])
            /\ sellCalls' = Left(c)
    /\ UNCHANGED <<outside, env, config, inventory, invSeq, transactions, cancelledOk>>

\* Lines 81-100: db.Create(&order); on success the goroutine starts and the
\* call returns the order, on failure the call goes on to unlock.
SellCreate(c, dbFails) ==
    /\ BagIn(c, sellCalls)
    /\ c.pc = "create"
    /\ IF dbFails
       THEN /\ sellCalls' = Moved(c, [c EXCEPT !.pc = "unlock"])
            /\ UNCHANGED <<orders, exec, cancelCalls, reservation>>
       ELSE /\ InsertOrder(NewOrder(c.user, c.item, "sell", c.price,
                                    c.quantity, c.platform),
                           [rows |-> c.seen, relocked |-> c.relocked])
            /\ sellCalls' = Left(c)
    /\ UNCHANGED <<outside, env, config, inventory, invSeq, transactions, cancelledOk>>

\* Lines 93-94: the unlock after a failed db.Create, and the return.
SellUnlock(c) ==
    /\ BagIn(c, sellCalls)
    /\ c.pc = "unlock"
    /\ inventory' = unlockInventory(inventory, c.user, c.item, c.quantity)
    /\ sellCalls' = Left(c)
    /\ UNCHANGED <<outside, env, config, orders, invSeq, transactions, exec, cancelCalls,
                   reservation, cancelledOk>>

\* db.Save writes every column of the row from the copy the caller holds; the
\* columns that ever differ from the row are these three.
SaveOrder(o, copy) ==
    [orders EXCEPT ![o].status = copy.status,
                   ![o].failedReason = copy.failedReason,
                   ![o].executed = copy.executed]

\* ------------------------------------------------------------- CancelOrder

\* What CancelOrder returns as its error when it returns at lines 126-136.
CancelOrderErrorMutant(orderID, userID) ==
    IF orderID \notin OrderIds THEN ErrRecordNotFound
    ELSE IF orders[orderID].user # userID THEN ErrUnauthorized
    ELSE NoError

CancelOrderError(orderID, userID) ==
    IF orderID \notin OrderIds THEN ErrRecordNotFound
    ELSE IF orders[orderID].user # userID THEN ErrUnauthorized
    ELSE IF orders[orderID].status # "pending" THEN ErrNotCancellable
    ELSE NoError

\* Lines 125-136: db.First and the two checks.  A call that returns here has
\* changed nothing; a call that passes them holds its own copy of the row.
CancelRead(orderID, userID) ==
    IF CancelOrderError(orderID, userID) # NoError
    THEN UNCHANGED vars
    ELSE /\ cancelCalls[orderID].pc = "idle"
         /\ cancelCalls' = [cancelCalls EXCEPT ![orderID] =
                [pc |-> IF orders[orderID].type = "sell"
                        THEN "unlock" ELSE "save",
                 caller |-> userID,
                 copy |-> [status |-> orders[orderID].status,
                           failedReason |-> orders[orderID].failedReason,
                           executed |-> orders[orderID].executed]]]
         /\ UNCHANGED <<outside, env, config, orders, inventory, invSeq, transactions,
                        exec, sellCalls, reservation, cancelledOk>>

\* Lines 139-141.
CancelUnlock(o) ==
    /\ cancelCalls[o].pc = "unlock"
    /\ inventory' = unlockInventory(inventory, orders[o].user, orders[o].item,
                                    orders[o].quantity)
    /\ cancelCalls' = [cancelCalls EXCEPT ![o].pc = "save"]
    /\ UNCHANGED <<outside, env, config, orders, invSeq, transactions, exec, sellCalls,
                   reservation, cancelledOk>>

\* Lines 143-144.
CancelSave(o) ==
    /\ cancelCalls[o].pc = "save"
    /\ orders' = SaveOrder(o, [cancelCalls[o].copy EXCEPT !.status = "cancelled"])
    /\ cancelCalls' = [cancelCalls EXCEPT ![o] = IdleCall]
    /\ cancelledOk' = cancelledOk \cup {o}
    /\ UNCHANGED <<outside, env, config, inventory, invSeq, transactions, exec, sellCalls,
                   reservation>>

\* ------------------------------------- executeBuyOrder / executeSellOrder

\* The goroutine's copy of the order after the switch of lines 152-165 /
\* 190-203 and the assignments of lines 167-173 / 205-213.
AfterConnectorMutant(order) ==
    IF ConnectorError(order) # NoError
    THEN [status |-> "failed", failedReason |-> order.failedReason,
          executed |-> order.executed]
    ELSE [status |-> "completed", failedReason |-> order.failedReason,
          executed |-> TRUE]

AfterConnector(order) ==
    IF ConnectorError(order) # NoError
    THEN [status |-> "failed", failedReason |-> ConnectorError(order),
          executed |-> order.executed]
    ELSE [status |-> "completed", failedReason |-> order.failedReason,
          executed |-> TRUE]

\* executeBuyOrder, lines 148-179: the connector switch and the first statement
\* after it: on an error the Save of line 182 (the goroutine is done), else
\* addToInventory.  recordTransaction is for a buy order one insert into a
\* table that no statement of the service reads, so it is taken in the same
\* step.
ExecBuyStart(o) ==
    LET order == orders[o]
        copy == AfterConnector(order) IN
    /\ order.type = "buy"
    /\ exec[o].pc = "start"
    /\ IF copy.status = "failed"
       THEN /\ orders' = SaveOrder(o, copy)
            /\ exec' = [exec EXCEPT ![o] = [pc |-> "done", copy |-> copy]]
            /\ UNCHANGED <<inventory, invSeq, transactions>>
       ELSE /\ inventory' = addToInventory(inventory, invSeq + 1, order)
            /\ invSeq' = invSeq + 1
            /\ transactions' = transactions \cup {TransactionRow(o, order, 0)}
            /\ exec' = [exec EXCEPT ![o] = [pc |-> "save", copy |-> copy]]
            /\ UNCHANGED orders
    /\ UNCHANGED <<outside, env, config, sellCalls, cancelCalls, reservation,
                   cancelledOk>>

\* executeSellOrder, lines 186-216: the connector switch and the first
\* statement after it: on an error unlockInventory, else removeFromInventory.
ExecSellStart(o) ==
    LET order == orders[o]
        copy == AfterConnector(order) IN
    /\ order.type = "sell"
    /\ exec[o].pc = "start"
    /\ IF copy.status = "failed"
       THEN /\ inventory' = unlockInventory(inventory, order.user, order.item,
                                            order.quantity)
            /\ exec' = [exec EXCEPT ![o] = [pc |-> "save", copy |-> copy]]
       ELSE /\ inventory' = removeFromInventory(inventory, order)
            /\ exec' = [exec EXCEPT ![o] = [pc |-> "transaction", copy |-> copy]]
    /\ UNCHANGED <<outside, env, config, orders, invSeq, transactions, sellCalls,
                   cancelCalls, reservation, cancelledOk>>

\* Line 219: recordTransaction of a sell order, the query of the buy price
\* and the insert.  The order's own columns other than the status never
\* change, so the row in the table stands for the goroutine's copy.
ExecSellTransaction(o) ==
    /\ exec[o].pc = "transaction"
    /\ \E buyPrice \in ScannedBuyPrices(orders[o]) :
           transactions' = transactions \cup
                               {TransactionRow(o, orders[o], buyPrice)}
    /\ exec' = [exec EXCEPT ![o].pc = "save"]
    /\ UNCHANGED <<outside, env, config, orders, inventory, invSeq, sellCalls, cancelCalls,
                   reservation, cancelledOk>>

\* Lines 182 / 222: s.db.Save(order).
ExecSave(o) ==
    /\ exec[o].pc = "save"
    /\ orders' = SaveOrder(o, exec[o].copy)
    /\ exec' = [exec EXCEPT ![o].pc = "done"]
    /\ UNCHANGED <<outside, env, config, inventory, invSeq, transactions, sellCalls,
                   cancelCalls, reservation, cancelledOk>>

\* ------------------------------------------------------------------ Next

Next ==
    \/ \E u \in env.users, i \in Items, p \in env.prices,
          q \in env.quantities, v \in env.platforms, f \in env.dbFails :
          CreateBuyOrder(u, i, p, q, v, f)
    \/ \E u \in env.users, i \in Items, p \in env.prices,
          q \in env.quantities, v \in env.platforms :
          SellCheck(u, i, p, q, v)
    \/ \E c \in BagToSet(sellCalls) : SellLock(c)
    \/ \E c \in BagToSet(sellCalls), f \in env.dbFails : SellCreate(c, f)
    \/ \E c \in BagToSet(sellCalls) : SellUnlock(c)
    \/ \E o \in 1..(Len(orders) + 1), u \in {Owner, Stranger} : CancelRead(o, u)
    \/ \E o \in OrderIds : CancelUnlock(o)
    \/ \E o \in OrderIds : CancelSave(o)
    \/ \E o \in OrderIds : ExecBuyStart(o)
    \/ \E o \in OrderIds : ExecSellStart(o)
    \/ \E o \in OrderIds : ExecSellTransaction(o)
    \/ \E o \in OrderIds : ExecSave(o)

Spec == Init /\ [][Next]_vars

\* ------------------------------------------------------ strategy executors
\* Lines 225-305 of the same file: the strategies table and the runStrategy
\* goroutines.  The order tables play no part here and stay empty.

MaxStrategies == 1

MaxTasks == 2

\* A type the switch of runStrategy knows and one it does not.
StrategyTypes == {"arbitrage", "custom"}

EvaluatedTypes == {"grid", "arbitrage", "trend_following", "mean_reversion"}

StrategyIds == 1..Len(strategies)

TaskIds == 1..Len(tasks)

\* The order tables of a database on which no order was ever created.
OrdersIdle ==
    /\ InitFresh
    /\ Stranger \in env.users
    /\ config = [buffEnabled |-> FALSE, youpinEnabled |-> FALSE]
    /\ sellCalls = EmptyBag
    /\ cancelledOk = {}

InitStrategies ==
    /\ OrdersIdle /\ StrategiesIdle /\ TraderIdle /\ HubIdle /\ DetectorIdle
    /\ ServicesIdle

\* WHERE id = ? AND user_id = ? on the rows that are not deleted.
FindStrategy(strategyID, userID) ==
    /\ strategyID \in StrategyIds
    /\ strategies[strategyID].user = userID
    /\ ~strategies[strategyID].deleted

\* Lines 233-237.
CreateStrategy(userID, type) ==
    /\ Len(strategies) < MaxStrategies
    /\ strategies' = Append(strategies, [user |-> userID, status |-> "paused",
                                         type |-> type, deleted |-> FALSE])
    /\ UNCHANGED <<outsideStrategies, tasks>>

\* Lines 247-250: a soft delete.
DeleteStrategy(strategyID, userID) ==
    /\ FindStrategy(strategyID, userID)
    /\ strategies' = [strategies EXCEPT ![strategyID].deleted = TRUE]
    /\ UNCHANGED <<outsideStrategies, tasks>>

\* What ActivateStrategy returns as its error (lines 255-257).
ActivateStrategyError(strategyID, userID) ==
    IF FindStrategy(strategyID, userID) THEN NoError ELSE ErrRecordNotFound

\* The goroutine that go s.runStrategy(&strategy) starts: it holds the row as
\* saved and waits for its ticker.  The last two fields are observations:
\* DeactivateStrategy returned for its strategy after it was started, and it
\* evaluated the strategy after that.
NewTask(strategyID) ==
    [strategy |-> strategyID, type |-> strategies[strategyID].type,
     pc |-> "wait", deactivated |-> FALSE, evaluatedLate |-> FALSE]

\* Lines 253-268: the row is read, saved as active, and a goroutine started,
\* whatever the status read and whatever goroutines there are.  A call that
\* returns an error has changed nothing.
ActivateStrategy(strategyID, userID) ==
    /\ Len(tasks) < MaxTasks
    /\ IF ActivateStrategyError(strategyID, userID) # NoError
       THEN UNCHANGED vars
       ELSE /\ strategies' = [strategies EXCEPT ![strategyID].status = "active"]
            /\ tasks' = Append(tasks, NewTask(strategyID))
            /\ UNCHANGED outsideStrategies

\* Lines 271-275: one UPDATE; it matches no row for another user's or a
\* deleted strategy and reports no error then.
DeactivateStrategy(strategyID, userID) ==
    IF ~FindStrategy(strategyID, userID)
    THEN UNCHANGED vars
    ELSE /\ strategies' = [strategies EXCEPT ![strategyID].status = "paused"]
         /\ tasks' = [t \in TaskIds |->
                IF tasks[t].strategy = strategyID /\ tasks[t].pc # "returned"
                THEN [tasks[t] EXCEPT !.deactivated = TRUE]
                ELSE tasks[t]]
         /\ UNCHANGED outsideStrategies

\* A tick that goes on to the switch whatever it read.
TaskCheckMutant(t) ==
    /\ tasks[t].pc = "wait"
    /\ tasks' = [tasks EXCEPT ![t].pc = "evaluate"]
    /\ UNCHANGED <<outsideStrategies, strategies>>

\* Lines 282-291: a tick; the goroutine reads the row and returns when it is
\* gone or not active.
TaskCheck(t) ==
    /\ tasks[t].pc = "wait"
    /\ tasks' = [tasks EXCEPT ![t].pc =
            IF \/ strategies[tasks[t].strategy].deleted
               \/ strategies[tasks[t].strategy].status # "active"
            THEN "returned"
            ELSE "evaluate"]
    /\ UNCHANGED <<outsideStrategies, strategies>>

\* Whether the switch of lines 294-303 calls an execute...Strategy function.
Evaluates(task) == task.type \in EvaluatedTypes

\* Lines 294-303: the switch on the type of the goroutine's copy, then the
\* next tick is awaited.
TaskEvaluate(t) ==
    /\ tasks[t].pc = "evaluate"
    /\ tasks' = [tasks EXCEPT
            ![t].pc = "wait",
            ![t].evaluatedLate = \/ tasks[t].evaluatedLate
                                 \/ tasks[t].deactivated /\ Evaluates(tasks[t])]
    /\ UNCHANGED <<outsideStrategies, strategies>>

NextStrategies ==
    \/ \E u \in {Owner, Stranger}, ty \in StrategyTypes : CreateStrategy(u, ty)
    \/ \E s \in StrategyIds, u \in {Owner, Stranger} : DeleteStrategy(s, u)
    \/ \E s \in 1..(Len(strategies) + 1), u \in {Owner, Stranger} :
          ActivateStrategy(s, u)
    \/ \E s \in 1..(Len(strategies) + 1), u \in {Owner, Stranger} :
          DeactivateStrategy(s, u)
    \/ \E t \in TaskIds : TaskCheck(t)
    \/ \E t \in TaskIds : TaskEvaluate(t)

SpecStrategies == InitStrategies /\ [][NextStrategies]_vars

\* ------------------------------------------------------- automated trader
\* internal/services/trading/trading_service.go: ExecuteStrategy, called by the
\* API handler and by the RunAutomatedTrading loop, and the trades it creates.

MaxTrades == 2

MaxApiEvals == 1

Platforms == {"steam", "buff", "youpin"}

\* What a venue's price call can answer: an error (no entry in the map) or a
\* price; a venue with nothing on offer answers 0.
NoQuote == -1

\* The answers of the three venues that the evaluations of a run can get: a
\* spread with the lower price on steam, a spread over a price of 0 on buff,
\* equal prices, and no answer at all.
Quotes ==
    { [steam |-> 100, buff |-> 112, youpin |-> NoQuote],
      [steam |-> NoQuote, buff |-> 0, youpin |-> 112],
      [steam |-> 100, buff |-> 100, youpin |-> NoQuote],
      [steam |-> NoQuote, buff |-> NoQuote, youpin |-> NoQuote] }

\* The strategies an earlier session created for the owner: one that is
\* active, and one with a higher sell threshold that is not.
SavedStrategies ==
    << [user |-> Owner, item |-> 1, buyPrice |-> 100, sellPrice |-> 110,
        isActive |-> TRUE],
       [user |-> Owner, item |-> 1, buyPrice |-> 100, sellPrice |-> 200,
        isActive |-> FALSE] >>

TraderStrategyIds == 1..Len(traderStrategies)

TradeIds == 1..Len(trades)

InitTrader ==
    /\ OrdersIdle
    /\ StrategiesIdle
    /\ HubIdle
    /\ DetectorIdle
    /\ ServicesIdle
    /\ traderStrategies = SavedStrategies
    /\ trades = <<>>
    /\ apiEvals = EmptyBag
    /\ loop = [pc |-> "query"]

\* GetItemPrices, lines 70-89: the venues that answered.
Quoted(quote) == {v \in Platforms : quote[v] # NoQuote}

SetMin(S) == CHOOSE x \in S : \A y \in S : x <= y

SetMax(S) == CHOOSE x \in S : \A y \in S : x >= y

\* analyzePrices, lines 95-110: the loop over the map leaves the least price
\* under 999999 and the greatest price over 0, each with the venue that was
\* visited first among those that have it (a map is visited in any order), or
\* with "" when no venue has such a price.
MinPrice(quote) == SetMin({quote[v] : v \in Quoted(quote)} \cup {999999})

MaxPrice(quote) == SetMax({quote[v] : v \in Quoted(quote)} \cup {0})

MinPlatforms(quote) ==
    IF \E v \in Quoted(quote) : quote[v] < 999999
    THEN {v \in Quoted(quote) : quote[v] = MinPrice(quote)}
    ELSE {""}

MaxPlatforms(quote) ==
    IF \E v \in Quoted(quote) : quote[v] > 0
    THEN {v \in Quoted(quote) : quote[v] = MaxPrice(quote)}
    ELSE {""}

\* Line 113: priceDiff > 5.0 && priceDiff/minPrice > 0.1, on float64: a
\* positive difference over a zero price is +Inf.
SpreadGate(minPrice, maxPrice) ==
    /\ maxPrice - minPrice > 5
    /\ IF minPrice = 0
       THEN TRUE
       ELSE (maxPrice - minPrice) * 10 > minPrice

TradeSignal(strategy, platform, action, price) ==
    [item |-> strategy.item, platform |-> platform, action |-> action,
     price |-> price]

\* analyzePrices, lines 91-140, for one order of visiting the map.
analyzePrices(quote, strategy, minPlatform, maxPlatform) ==
    IF SpreadGate(MinPrice(quote), MaxPrice(quote))
    THEN (IF MinPrice(quote) <= strategy.buyPrice
          THEN <<TradeSignal(strategy, minPlatform, "buy", MinPrice(quote))>>
          ELSE <<>>)
         \o
         (IF MaxPrice(quote) >= strategy.sellPrice
          THEN <<TradeSignal(strategy, maxPlatform, "sell", MaxPrice(quote))>>
          ELSE <<>>)
    ELSE <<>>

\* What ExecuteStrategy returns as its error at lines 41-48.
ExecuteStrategyError(strategyID) ==
    IF strategyID \notin TraderStrategyIds THEN ErrRecordNotFound
    ELSE IF ~traderStrategies[strategyID].isActive THEN "strategy is not active"
    ELSE NoError

\* An ExecuteStrategy call after line 57: it holds the signals it still has
\* to execute and, between the Create and the Save of a trade, that trade.
Evaluation(strategyID, signals) ==
    [strategy |-> strategyID, signals |-> signals, trade |-> 0]

Evaluations(strategyID) ==
    UNION {{Evaluation(strategyID,
                       analyzePrices(quote, traderStrategies[strategyID], lo, hi))
               : lo \in MinPlatforms(quote), hi \in MaxPlatforms(quote)}
           : quote \in Quotes}

\* Room for the trades of one more evaluation: those under way may still
\* create one trade for each signal they hold and have no trade for.
ToCreate(e) == Len(e.signals) - (IF e.trade # 0 THEN 1 ELSE 0)

RECURSIVE SignalsHeld(_)
SignalsHeld(evals) ==
    IF evals = EmptyBag THEN 0
    ELSE LET e == CHOOSE x \in BagToSet(evals) : TRUE IN
         ToCreate(e) + SignalsHeld(evals (-) SetToBag({e}))

HasTradeRoom(e) ==
    Len(trades) + SignalsHeld(apiEvals)
        + (IF loop.pc = "evaluate" THEN ToCreate(loop.eval) ELSE 0)
        + Len(e.signals) <= MaxTrades

\* executeTrade, lines 144-156: the trade as created.
NewTrade(e) ==
    LET signal == Head(e.signals)
        strategy == traderStrategies[e.strategy] IN
    [user |-> strategy.user, item |-> signal.item,
     platform |-> signal.platform, type |-> signal.action,
     price |-> signal.price, quantity |-> 1, status |-> "pending"]

\* Lines 154-156: db.Create(&trade); when it fails executeTrade returns and
\* the loop of ExecuteStrategy goes on with the next signal.
AfterCreate(e, dbFails) ==
    IF dbFails
    THEN [e EXCEPT !.signals = Tail(e.signals)]
    ELSE [e EXCEPT !.trade = Len(trades) + 1]

\* An executeTrade whose switch can leave err nil for every trade.
VenueResultsMutant(trade) == {"completed", "failed"}

\* Lines 158-176: whether the venue call of a trade can succeed.  Only a buy
\* on buff or youpin calls a venue; what the venue answers is its own.
VenueResults(trade) ==
    IF trade.platform \in {"buff", "youpin"} /\ trade.type = "buy"
    THEN {"completed", "failed"}
    ELSE {"failed"}

\* Lines 178-188 and 61-64: the Save of the trade, and the next signal
\* whatever executeTrade returned.
AfterSaveMutant(e, status) ==
    IF status = "failed"
    THEN [e EXCEPT !.signals = <<>>, !.trade = 0]
    ELSE [e EXCEPT !.signals = Tail(e.signals), !.trade = 0]

AfterSave(e, status) == [e EXCEPT !.signals = Tail(e.signals), !.trade = 0]

\* ExecuteStrategy of the API handler (internal/api/api.go, lines 312-321):
\* lines 41-57.  A call that returns an error, or that has no signal, has
\* changed nothing.
ApiExecuteStrategy(strategyID) ==
    /\ BagCardinality(apiEvals) < MaxApiEvals
    /\ IF ExecuteStrategyError(strategyID) # NoError
       THEN UNCHANGED vars
       ELSE \E e \in Evaluations(strategyID) :
               /\ HasTradeRoom(e)
               /\ apiEvals' = IF e.signals = <<>>
                              THEN apiEvals
                              ELSE apiEvals (+) SetToBag({e})
               /\ UNCHANGED <<outsideTrader, traderStrategies, trades, loop>>

\* db.Create of the trade for the first remaining signal.
CreateTrade(e, dbFails) ==
    /\ e.trade = 0
    /\ e.signals # <<>>
    /\ trades' = IF dbFails THEN trades ELSE Append(trades, NewTrade(e))

\* The venue call and the Save of the trade.
SaveTrade(e, status) ==
    /\ e.trade # 0
    /\ status \in VenueResults(trades[e.trade])
    /\ trades' = [trades EXCEPT ![e.trade].status = status]

\* The call is over when no signal remains.
Returned(e) == e.signals = <<>>

ApiStep(e, next) ==
    /\ apiEvals' = IF Returned(next)
                   THEN apiEvals (-) SetToBag({e})
                   ELSE (apiEvals (-) SetToBag({e})) (+) SetToBag({next})
    /\ UNCHANGED <<outsideTrader, traderStrategies, loop>>

ApiCreateTrade(e, dbFails) ==
    /\ BagIn(e, apiEvals)
    /\ CreateTrade(e, dbFails)
    /\ ApiStep(e, AfterCreate(e, dbFails))

ApiSaveTrade(e) ==
    /\ BagIn(e, apiEvals)
    /\ \E status \in {"completed", "failed"} :
          /\ SaveTrade(e, status)
          /\ ApiStep(e, AfterSave(e, status))

\* UpdateStrategy, lines 214-216, with updates {"is_active": v}.
UpdateStrategy(strategyID, isActive) ==
    /\ strategyID \in TraderStrategyIds
    /\ traderStrategies' =
           [traderStrategies EXCEPT ![strategyID].isActive = isActive]
    /\ UNCHANGED <<outsideTrader, trades, apiEvals, loop>>

\* GetActiveStrategies, lines 201-208, in the order of the IDs.
RECURSIVE ActiveFrom(_)
ActiveFrom(id) ==
    IF id \notin TraderStrategyIds THEN <<>>
    ELSE (IF traderStrategies[id].isActive THEN <<id>> ELSE <<>>)
         \o ActiveFrom(id + 1)

GetActiveStrategies == ActiveFrom(1)

\* RunAutomatedTrading, lines 225-231: the query of a round.
LoopQuery ==
    /\ loop.pc = "query"
    /\ loop' = [pc |-> "next", queue |-> GetActiveStrategies]
    /\ UNCHANGED <<outsideTrader, traderStrategies, trades, apiEvals>>

\* Lines 233-240: ExecuteStrategy for the next strategy of the round up to its
\* line 57, or the end of the round.  An error of ExecuteStrategy is logged and
\* the round goes on.
LoopNext ==
    /\ loop.pc = "next"
    /\ \/ /\ loop.queue = <<>>
          /\ loop' = [pc |-> "query"]
       \/ /\ loop.queue # <<>>
          /\ IF ExecuteStrategyError(Head(loop.queue)) # NoError
             THEN loop' = [loop EXCEPT !.queue = Tail(loop.queue)]
             ELSE \E e \in Evaluations(Head(loop.queue)) :
                     /\ HasTradeRoom(e)
                     /\ loop' = IF Returned(e)
                             THEN [loop EXCEPT !.queue = Tail(loop.queue)]
                             ELSE [pc |-> "evaluate", queue |-> loop.queue,
                                   eval |-> e]
    /\ UNCHANGED <<outsideTrader, traderStrategies, trades, apiEvals>>

LoopStep(next) ==
    /\ loop' = IF Returned(next)
               THEN [pc |-> "next", queue |-> Tail(loop.queue)]
               ELSE [loop EXCEPT !.eval = next]
    /\ UNCHANGED <<outsideTrader, traderStrategies, apiEvals>>

LoopCreateTrade(dbFails) ==
    /\ loop.pc = "evaluate"
    /\ CreateTrade(loop.eval, dbFails)
    /\ LoopStep(AfterCreate(loop.eval, dbFails))

LoopSaveTrade ==
    /\ loop.pc = "evaluate"
    /\ \E status \in {"completed", "failed"} :
          /\ SaveTrade(loop.eval, status)
          /\ LoopStep(AfterSave(loop.eval, status))

NextTrader ==
    \/ \E s \in 1..(Len(traderStrategies) + 1) : ApiExecuteStrategy(s)
    \/ \E e \in BagToSet(apiEvals), f \in BOOLEAN : ApiCreateTrade(e, f)
    \/ \E e \in BagToSet(apiEvals) : ApiSaveTrade(e)
    \/ \E s \in TraderStrategyIds, v \in BOOLEAN : UpdateStrategy(s, v)
    \/ LoopQuery
    \/ LoopNext
    \/ \E f \in BOOLEAN : LoopCreateTrade(f)
    \/ LoopSaveTrade

SpecTrader == InitTrader /\ [][NextTrader]_vars

\* The RunAutomatedTrading goroutine is scheduled again and again, and the
\* database and the venues answer its calls.
SpecTraderFair ==
    /\ SpecTrader
    /\ WF_vars(LoopQuery)
    /\ WF_vars(LoopNext)
    /\ WF_vars(\E f \in BOOLEAN : LoopCreateTrade(f))
    /\ WF_vars(LoopSaveTrade)

\* ----------------------------------------------------------- broadcast hub
\* csgo2-trading-bot/backend/api/middleware.go, lines 558-788.  The three
\* channels of the hub have no buffer: a send on one of them is over when the
\* hub's select receives it.

InitHub ==
    /\ OrdersIdle /\ StrategiesIdle /\ TraderIdle /\ HubIdle /\ DetectorIdle
    /\ ServicesIdle

\* The message type that is published, by the ticker goroutine of
\* HandleWebSocket (lines 617-640); BroadcastPriceUpdate, BroadcastOrderUpdate
\* and BroadcastNotification end with the same send but have no caller.  And
\* the reply of readPump to a ping.
PublishedTypes == {"market_update"}

Pong == [seq |-> 0, type |-> "pong"]

\* HandleWebSocket, lines 642-655: the connection is upgraded, the Client made
\* with an empty send channel, and the handler waits at hub.register <- client.
Connect(c) ==
    /\ ~crashed
    /\ clients[c].phase = "absent"
    /\ clients' = [clients EXCEPT ![c].phase = "registering"]
    /\ UNCHANGED <<outsideHub, hub, pending, published, crashed>>

\* Hub.Run, lines 588-590, and lines 657-658 of the handler, which goes on
\* when its send is received: both pumps start.
HubRegister(c) ==
    /\ ~crashed
    /\ hub.pc = "select"
    /\ clients[c].phase = "registering"
    /\ hub' = [hub EXCEPT !.clients = hub.clients \cup {c}]
    /\ clients' = [clients EXCEPT ![c].phase = "running",
                                  ![c].reader = "reading",
                                  ![c].writer = "running",
                                  ![c].joined = Len(published)]
    /\ UNCHANGED <<outsideHub, pending, published, crashed>>

\* The ticker goroutine reaches hub.broadcast <- data (line 638) and waits
\* there; its next tick comes after the send is over.
Publish(type) ==
    /\ ~crashed
    /\ pending = {}
    /\ Len(published) < MaxMessages
    /\ pending' = pending \cup
           {[seq |-> Len(published) + Cardinality(pending) + 1, type |-> type]}
    /\ UNCHANGED <<outsideHub, hub, clients, published, crashed>>

\* Hub.Run, lines 599-600: the hub receives a message, which ends the
\* publisher's send, and starts the loop over its clients.
HubTake(m) ==
    /\ ~crashed
    /\ hub.pc = "select"
    /\ m \in pending
    /\ pending' = pending \ {m}
    /\ published' = Append(published, m)
    /\ hub' = IF hub.clients = {}
              THEN hub
              ELSE [pc |-> "fanout", clients |-> hub.clients, msg |-> m,
                    todo |-> hub.clients]
    /\ UNCHANGED <<outsideHub, clients, crashed>>

\* Lines 601-606: the select with a default on one client's send channel.
HasBufferRoom(client) == Len(client.send) < SendCap

OfferMutant(client, message) ==
    IF HasBufferRoom(client)
    THEN [client EXCEPT !.send = Append(client.send, message)]
    ELSE client

Offer(client, message) ==
    IF HasBufferRoom(client)
    THEN [client EXCEPT !.send = Append(client.send, message)]
    ELSE [client EXCEPT !.closed = TRUE]

\* A loop that skips a client whose buffer is full and keeps it.
HubSendMutant(c) ==
    /\ ~crashed
    /\ hub.pc = "fanout"
    /\ c \in hub.todo
    /\ clients' = [clients EXCEPT ![c] = OfferMutant(clients[c], hub.msg)]
    /\ hub' = IF hub.todo = {c}
              THEN [pc |-> "select", clients |-> hub.clients]
              ELSE [hub EXCEPT !.todo = hub.todo \ {c}]
    /\ UNCHANGED <<outsideHub, pending, published, crashed>>

\* One iteration of the loop of lines 600-607, for any client that is left
\* (a map is visited in any order); after the last the hub is at its select
\* again.
HubSend(c) ==
    /\ ~crashed
    /\ hub.pc = "fanout"
    /\ c \in hub.todo
    /\ clients' = [clients EXCEPT ![c] = Offer(clients[c], hub.msg)]
    /\ LET remaining == IF HasBufferRoom(clients[c])
                        THEN hub.clients
                        ELSE hub.clients \ {c} IN
       hub' = IF hub.todo = {c}
              THEN [pc |-> "select", clients |-> remaining]
              ELSE [hub EXCEPT !.clients = remaining, !.todo = hub.todo \ {c}]
    /\ UNCHANGED <<outsideHub, pending, published, crashed>>

\* readPump, lines 675-681 and 663-664: ReadMessage returns an error (the peer
\* is gone, the deadline passed, or the connection was closed) and the deferred
\* function waits at hub.unregister <- c.
ReaderError(c) ==
    /\ ~crashed
    /\ clients[c].reader = "reading"
    /\ clients' = [clients EXCEPT ![c].reader = "unregistering"]
    /\ UNCHANGED <<outsideHub, hub, pending, published, crashed>>

\* An unregister case without the test of line 593: it closes the channel of
\* a client that is not among the clients, and close of a closed channel
\* panics.
HubUnregisterMutant(c) ==
    /\ ~crashed
    /\ hub.pc = "select"
    /\ clients[c].reader = "unregistering"
    /\ hub' = [hub EXCEPT !.clients = hub.clients \ {c}]
    /\ clients' = [clients EXCEPT
           ![c].closed = TRUE,
           ![c].reader = "done",
           ![c].connClosed = TRUE]
    /\ crashed' = clients[c].closed
    /\ UNCHANGED <<outsideHub, pending, published>>

\* Hub.Run, lines 592-597, and line 665 of readPump, which goes on when its
\* send is received.
HubUnregister(c) ==
    /\ ~crashed
    /\ hub.pc = "select"
    /\ clients[c].reader = "unregistering"
    /\ hub' = [hub EXCEPT !.clients = hub.clients \ {c}]
    /\ clients' = [clients EXCEPT
           ![c].closed = clients[c].closed \/ c \in hub.clients,
           ![c].reader = "done",
           ![c].connClosed = TRUE]
    /\ UNCHANGED <<outsideHub, pending, published, crashed>>

\* readPump, lines 675-703: a ping message of the peer was read and the reply
\* is ready.
ReaderPing(c) ==
    /\ ~crashed
    /\ clients[c].reader = "reading"
    /\ ~clients[c].connClosed
    /\ clients' = [clients EXCEPT ![c].reader = "replying"]
    /\ UNCHANGED <<outsideHub, hub, pending, published, crashed>>

\* Line 704: c.send <- data.  The send waits while the buffer is full, and
\* panics when the channel is closed.
ReaderPong(c) ==
    /\ ~crashed
    /\ clients[c].reader = "replying"
    /\ \/ /\ clients[c].closed
          /\ crashed' = TRUE
          /\ UNCHANGED clients
       \/ /\ ~clients[c].closed
          /\ HasBufferRoom(clients[c])
          /\ clients' = [clients EXCEPT ![c].send = Append(clients[c].send, Pong),
                                        ![c].reader = "reading"]
          /\ UNCHANGED crashed
    /\ UNCHANGED <<outsideHub, hub, pending, published>>

\* writePump, lines 718-725: a message is received from the send channel and
\* written to the connection; the result of the write is not looked at.
WriterTake(c) ==
    /\ ~crashed
    /\ clients[c].writer = "running"
    /\ clients[c].send # <<>>
    /\ clients' = [clients EXCEPT
           ![c].send = Tail(clients[c].send),
           ![c].wrote = IF Head(clients[c].send) = Pong
                        THEN clients[c].wrote
                        ELSE Append(clients[c].wrote, Head(clients[c].send))]
    /\ UNCHANGED <<outsideHub, hub, pending, published, crashed>>

\* Lines 718-723 and 711-714: the channel is closed and empty; the pump
\* writes the close message, returns and closes the connection.
WriterClosed(c) ==
    /\ ~crashed
    /\ clients[c].writer = "running"
    /\ clients[c].send = <<>>
    /\ clients[c].closed
    /\ clients' = [clients EXCEPT ![c].writer = "done", ![c].connClosed = TRUE]
    /\ UNCHANGED <<outsideHub, hub, pending, published, crashed>>

\* Lines 727-731 and 711-714: the write of a keepalive ping fails; the pump
\* returns and closes the connection.
WriterPingFails(c) ==
    /\ ~crashed
    /\ clients[c].writer = "running"
    /\ clients' = [clients EXCEPT ![c].writer = "done", ![c].connClosed = TRUE]
    /\ UNCHANGED <<outsideHub, hub, pending, published, crashed>>

NextHub ==
    \/ \E c \in ClientIds : Connect(c)
    \/ \E c \in ClientIds : HubRegister(c)
    \/ \E t \in PublishedTypes : Publish(t)
    \/ \E m \in pending : HubTake(m)
    \/ \E c \in ClientIds : HubSend(c)
    \/ \E c \in ClientIds : ReaderError(c)
    \/ \E c \in ClientIds : HubUnregister(c)
    \/ \E c \in ClientIds : ReaderPing(c)
    \/ \E c \in ClientIds : ReaderPong(c)
    \/ \E c \in ClientIds : WriterTake(c)
    \/ \E c \in ClientIds : WriterClosed(c)
    \/ \E c \in ClientIds : WriterPingFails(c)

SpecHub == InitHub /\ [][NextHub]_vars

\* The Hub.Run goroutine is scheduled again and again, and its select takes
\* every channel that stays ready.
SpecHubFair ==
    /\ SpecHub
    /\ SF_vars(\E m \in pending : HubTake(m))
    /\ WF_vars(\E c \in ClientIds : HubSend(c))

\* ------------------------------------------------------ arbitrage detector
\* internal/services/price/price_service.go, lines 229-272, called by the
\* handler of internal/api/api.go, lines 227-237, for one item.

\* The prices of the rows: 0 is what a venue with nothing on offer is saved
\* with.  The quotients (sell - buy) / buy of these levels, times 100, are
\* 10, 12, 100, 120 and 124, which float64 gives exactly, and between 1 and
\* 2 for 110 and 112.
PriceLevels == {0, 50, 100, 110, 112}

\* What GetLatestPrices can return for the item: a map from the platforms
\* that have a row to the price of the row.
LatestPrices == UNION {[venues -> PriceLevels] : venues \in SUBSET Platforms}

\* What the handler passes: the min_profit of the query, 10 without one, 0 for
\* one that ParseFloat rejects.
Thresholds == {0, 10, 15, 100}

\* A float64 by its whole part, which decides its comparison with a whole
\* threshold, and the quotient of a positive number by zero.
Finite(n) == [inf |-> FALSE, val |-> n]

PlusInf == [inf |-> TRUE, val |-> 0]

\* Lines 252-253.
ProfitPercent(profit, buyPrice) ==
    IF buyPrice = 0 THEN PlusInf ELSE Finite((profit * 100) \div buyPrice)

\* Line 255 with > for >=, and line 255.
AtLeastMutant(profitPercent, minProfitPercent) ==
    profitPercent.inf \/ profitPercent.val > minProfitPercent

AtLeast(profitPercent, minProfitPercent) ==
    profitPercent.inf \/ profitPercent.val >= minProfitPercent

\* Lines 251-266: the body of the inner loop.
Compare(opportunities, prices, platform1, platform2, minProfitPercent) ==
    IF platform1 # platform2 /\ prices[platform1] < prices[platform2]
    THEN LET profit == prices[platform2] - prices[platform1]
             profitPercent == ProfitPercent(profit, prices[platform1]) IN
         IF AtLeast(profitPercent, minProfitPercent)
         THEN Append(opportunities,
                     [buyPlatform |-> platform1, sellPlatform |-> platform2,
                      buyPrice |-> prices[platform1],
                      sellPrice |-> prices[platform2],
                      profit |-> profit, profitPercent |-> profitPercent])
         ELSE opportunities
    ELSE opportunities

\* The handler was called and GetLatestPrices has answered.
InitDetector ==
    /\ OrdersIdle
    /\ StrategiesIdle
    /\ TraderIdle
    /\ HubIdle
    /\ ServicesIdle
    /\ \E prices \in LatestPrices, minProfitPercent \in Thresholds :
         detector = [pc |-> "start", prices |-> prices,
                     minProfitPercent |-> minProfitPercent,
                     opportunities |-> <<>>]

\* Lines 244-246 and 271: an item with fewer than two prices is passed over;
\* line 249: the outer loop starts.
DetectorStart ==
    /\ detector.pc = "start"
    /\ detector' =
         IF Cardinality(DOMAIN detector.prices) < 2
         THEN [detector EXCEPT !.pc = "done"]
         ELSE [pc |-> "outer", prices |-> detector.prices,
               minProfitPercent |-> detector.minProfitPercent,
               opportunities |-> detector.opportunities,
               outer |-> DOMAIN detector.prices]
    /\ UNCHANGED outsideDetector

\* Line 249: the outer loop takes a platform of the map it has not visited,
\* in any order, and line 250 starts the inner loop over the whole map.
OuterNext(platform1) ==
    /\ detector.pc = "outer"
    /\ platform1 \in detector.outer
    /\ detector' =
         [pc |-> "inner", prices |-> detector.prices,
          minProfitPercent |-> detector.minProfitPercent,
          opportunities |-> detector.opportunities,
          outer |-> detector.outer \ {platform1},
          platform1 |-> platform1, inner |-> DOMAIN detector.prices]
    /\ UNCHANGED outsideDetector

\* Lines 250-267: one pass of the inner loop, for a platform of the map it
\* has not visited, in any order; after the last the outer loop goes on.
InnerNext(platform2) ==
    /\ detector.pc = "inner"
    /\ platform2 \in detector.inner
    /\ LET found == Compare(detector.opportunities, detector.prices,
                            detector.platform1, platform2,
                            detector.minProfitPercent) IN
       detector' =
         IF detector.inner = {platform2}
         THEN [pc |-> "outer", prices |-> detector.prices,
               minProfitPercent |-> detector.minProfitPercent,
               opportunities |-> found, outer |-> detector.outer]
         ELSE [detector EXCEPT !.opportunities = found,
                               !.inner = detector.inner \ {platform2}]
    /\ UNCHANGED outsideDetector

\* Line 271: every platform was visited; the opportunities are returned.
DetectorReturn ==
    /\ detector.pc = "outer"
    /\ detector.outer = {}
    /\ detector' = [pc |-> "done", prices |-> detector.prices,
                    minProfitPercent |-> detector.minProfitPercent,
                    opportunities |-> detector.opportunities]
    /\ UNCHANGED outsideDetector

NextDetector ==
    \/ DetectorStart
    \/ \E platform1 \in Platforms : OuterNext(platform1)
    \/ \E platform2 \in Platforms : InnerNext(platform2)
    \/ DetectorReturn

SpecDetector == InitDetector /\ [][NextDetector]_vars

\* ------------------------------------------------------------- price table
\* internal/services/price/price_service.go, lines 45-88, for the rows of one
\* item.

MaxPrices == 3

Timestamps == {1, 2}

\* The price and the volume of a point a venue answers with: an offer, and a
\* venue with nothing on offer.
Offers == {[price |-> 100, volume |-> 5], [price |-> 0, volume |-> 0]}

\* The points a caller can hand to SavePrice.
PricePoints ==
    {[platform |-> v, price |-> o.price, volume |-> o.volume, timestamp |-> t] :
        v \in Platforms, o \in Offers, t \in Timestamps}

PriceIds == 1..Len(priceRows)

InitPrices ==
    /\ OrdersIdle
    /\ StrategiesIdle
    /\ TraderIdle
    /\ HubIdle
    /\ DetectorIdle
    /\ ServicesIdle

\* SavePrice, lines 45-47: db.Create of the point as it is.
SavePrice(price) ==
    /\ Len(priceRows) < MaxPrices
    /\ priceRows' = Append(priceRows, price)
    /\ UNCHANGED <<outsidePrices, latestResult>>

\* The subquery of lines 71-74: the greatest timestamp of each platform that
\* has a row.
MaxTimestamps ==
    {SetMax({priceRows[i].timestamp : i \in {j \in PriceIds :
                                              priceRows[j].platform = v}}) :
        v \in {priceRows[i].platform : i \in PriceIds}}

\* The rows of the query of lines 68-76: those whose timestamp is one of
\* these.
SelectedRows == {i \in PriceIds : priceRows[i].timestamp \in MaxTimestamps}

\* GetLatestPrices, lines 64-88: the loop of lines 83-85 leaves, for each
\* platform, the row of it that comes last in the result of the query, which
\* has no ORDER BY.
GetLatestPrices ==
    /\ LET selected == SelectedRows IN
       \E result \in [{priceRows[i].platform : i \in selected} -> selected] :
         /\ \A v \in DOMAIN result : priceRows[result[v]].platform = v
         /\ latestResult' = [called |-> TRUE, read |-> Len(priceRows),
                             rows |-> result]
    /\ UNCHANGED <<outsidePrices, priceRows>>

NextPrices ==
    \/ \E price \in PricePoints : SavePrice(price)
    \/ GetLatestPrices

SpecPrices == InitPrices /\ [][NextPrices]_vars

\* ----------------------------------------------------------- market prices
\* csgo2-trading-bot/backend/services/market/market_service.go, lines
\* 139-195, for one item; the database and Redis answer every call.

MaxUpdates == 2

\* The prices UpdateItemPrice is called with.
UpdatePrices == {0, 110, 120}

InitMarket ==
    /\ OrdersIdle
    /\ StrategiesIdle
    /\ TraderIdle
    /\ HubIdle
    /\ DetectorIdle
    /\ ServicesIdle

\* The UpdateItemPrice calls that were made.
UpdatesMade == Len(priceHistory) - 1 + BagCardinality(updateCalls)

\* UpdateItemPrice, lines 141-148: the UPDATE of the item's current_price.
UpdateItemPrice(price) ==
    /\ UpdatesMade < MaxUpdates
    /\ currentPrice' = price
    /\ updateCalls' = updateCalls (+) SetToBag({[pc |-> "history", price |-> price]})
    /\ UNCHANGED <<outsideMarket, priceHistory, cache, observed>>

\* Lines 151-160: the INSERT of the price history row.
CreatePriceHistory(call) ==
    /\ BagIn(call, updateCalls)
    /\ call.pc = "history"
    /\ priceHistory' = Append(priceHistory, call.price)
    /\ updateCalls' = (updateCalls (-) SetToBag({call}))
                          (+) SetToBag({[call EXCEPT !.pc = "cache"]})
    /\ UNCHANGED <<outsideMarket, currentPrice, cache, observed>>

\* Lines 163-170: the SET of the Redis key, and the return.
SetCache(call) ==
    /\ BagIn(call, updateCalls)
    /\ call.pc = "cache"
    /\ cache' = call.price
    /\ updateCalls' = updateCalls (-) SetToBag({call})
    /\ UNCHANGED <<outsideMarket, currentPrice, priceHistory, observed>>

\* The key expires after its 5 minutes (line 168).
ExpireCache ==
    /\ cache # NoPrice
    /\ cache' = NoPrice
    /\ UNCHANGED <<outsideMarket, currentPrice, priceHistory, updateCalls,
                   observed>>

\* GetRealtimePrice, lines 174-195: the cached price if there is one, else the
\* item's current_price.
GetRealtimePrice ==
    /\ observed' = IF cache # NoPrice THEN cache ELSE currentPrice
    /\ UNCHANGED <<outsideMarket, currentPrice, priceHistory, cache, updateCalls>>

NextMarket ==
    \/ \E price \in UpdatePrices : UpdateItemPrice(price)
    \/ \E call \in BagToSet(updateCalls) : CreatePriceHistory(call)
    \/ \E call \in BagToSet(updateCalls) : SetCache(call)
    \/ ExpireCache
    \/ GetRealtimePrice

SpecMarket == InitMarket /\ [][NextMarket]_vars

\* --------------------------------------------------------- market analysis
\* csgo2-trading-bot/backend/services/market/market_service.go, lines
\* 235-420: the functions GetMarketAnalysis applies to the price series of
\* an item, which it reaches with at least one price (line 245).

\* A call with its argument, and its return.
Called(prices) == [pc |-> "called", prices |-> prices]

Returns(result) ==
    [pc |-> "done", prices |-> analysis.prices, result |-> result]

\* The samples the trend looks at (lines 271-272).
TrendWindow == 7

\* Go's prices[from:], with from counted from 0.
SliceFrom(prices, from) == SubSeq(prices, from + 1, Len(prices))

\* The loops of isUptrend and isDowntrend, lines 401-405 and 414-418.
RECURSIVE upCount(_, _)
upCount(prices, i) ==
    IF i > Len(prices) THEN 0
    ELSE (IF prices[i] > prices[i - 1] THEN 1 ELSE 0) + upCount(prices, i + 1)

RECURSIVE downCount(_, _)
downCount(prices, i) ==
    IF i > Len(prices) THEN 0
    ELSE (IF prices[i] < prices[i - 1] THEN 1 ELSE 0) + downCount(prices, i + 1)

\* isUptrend with >= for >, isUptrend (lines 396-407) and isDowntrend (lines
\* 409-420).
isUptrendMutant(prices) ==
    IF Len(prices) < 2 THEN FALSE
    ELSE upCount(prices, 2) >= Len(prices) \div 2

isUptrend(prices) ==
    IF Len(prices) < 2 THEN FALSE
    ELSE upCount(prices, 2) > Len(prices) \div 2

isDowntrend(prices) ==
    IF Len(prices) < 2 THEN FALSE
    ELSE downCount(prices, 2) > Len(prices) \div 2

\* GetMarketAnalysis, lines 270-279.
Trend(prices) ==
    IF Len(prices) >= TrendWindow
    THEN LET recent == SliceFrom(prices, Len(prices) - TrendWindow) IN
         IF isUptrend(recent) THEN "bullish"
         ELSE IF isDowntrend(recent) THEN "bearish"
         ELSE "neutral"
    ELSE "neutral"

\* The series the trend is computed for: up to one sample more than the
\* window, over three price levels.
TrendLevels == {1, 2, 3}

TrendSeries == UNION {[1..n -> TrendLevels] : n \in 1..(TrendWindow + 1)}

InitTrend ==
    /\ OrdersIdle
    /\ StrategiesIdle
    /\ TraderIdle
    /\ HubIdle
    /\ DetectorIdle
    /\ PricesIdle
    /\ MarketIdle
    /\ \E prices \in TrendSeries : analysis = Called(prices)

GetTrend ==
    /\ analysis.pc = "called"
    /\ analysis' = Returns(Trend(analysis.prices))
    /\ UNCHANGED outsideAnalysis

NextTrend == GetTrend

SpecTrend == InitTrend /\ [][NextTrend]_vars

\* A float64 as the fraction it stands for, in lowest terms with a positive
\* denominator; rounding is left out.  NotFinite is what a division by zero
\* gives (an infinity or NaN): in calculateStdDev a sum that meets one ends
\* as NaN, and so does everything computed from it.
RECURSIVE GCD(_, _)
GCD(a, b) == IF b = 0 THEN a ELSE GCD(b, a % b)

Abs(a) == IF a < 0 THEN -a ELSE a

Frac(num, den) ==
    LET g == GCD(Abs(num), den) IN [num |-> num \div g, den |-> den \div g]

NotFinite == [num |-> 0, den |-> 0]

IsFinite(x) == x.den # 0

Float(n) == Frac(n, 1)

Add(x, y) ==
    IF IsFinite(x) /\ IsFinite(y)
    THEN Frac(x.num * y.den + y.num * x.den, x.den * y.den)
    ELSE NotFinite

Sub(x, y) ==
    IF IsFinite(x) /\ IsFinite(y)
    THEN Frac(x.num * y.den - y.num * x.den, x.den * y.den)
    ELSE NotFinite

Mul(x, y) ==
    IF IsFinite(x) /\ IsFinite(y)
    THEN Frac(x.num * y.num, x.den * y.den)
    ELSE NotFinite

\* x / y for a y that is not negative.
Div(x, y) ==
    IF IsFinite(x) /\ IsFinite(y) /\ y.num > 0
    THEN Frac(x.num * y.den, x.den * y.num)
    ELSE NotFinite

\* The loop of calculateAverage, lines 325-328.
RECURSIVE SumOf(_, _)
SumOf(prices, i) ==
    IF i > Len(prices) THEN Float(0)
    ELSE Add(SumOf(prices, i + 1), prices[i])

\* calculateAverage, lines 321-330.
calculateAverage(prices) ==
    IF Len(prices) = 0 THEN Float(0)
    ELSE Div(SumOf(prices, 1), Float(Len(prices)))

\* The loop of calculateStdDev, lines 338-340.
RECURSIVE SumOfSquares(_, _, _)
SumOfSquares(prices, avg, i) ==
    IF i > Len(prices) THEN Float(0)
    ELSE Add(SumOfSquares(prices, avg, i + 1),
             Mul(Sub(prices[i], avg), Sub(prices[i], avg)))

\* calculateStdDev, lines 332-342.
calculateStdDev(prices) ==
    IF Len(prices) = 0 THEN Float(0)
    ELSE Div(SumOfSquares(prices, calculateAverage(prices), 1),
             Float(Len(prices)))

\* calculateVolatility, lines 344-353.
calculateVolatility(prices) ==
    IF Len(prices) < 2 THEN Float(0)
    ELSE calculateStdDev(
             [i \in 1..(Len(prices) - 1) |->
                 Div(Sub(prices[i + 1], prices[i]), prices[i])])

\* The series the deviations are computed for.
DeviationLevels == {0, 1, 2, 4}

DeviationSeries == UNION {[1..n -> DeviationLevels] : n \in 1..3}

AsFloats(series) == [i \in 1..Len(series) |-> Float(series[i])]

InitDeviation ==
    /\ OrdersIdle
    /\ StrategiesIdle
    /\ TraderIdle
    /\ HubIdle
    /\ DetectorIdle
    /\ PricesIdle
    /\ MarketIdle
    /\ \E prices \in DeviationSeries : analysis = Called(prices)

\* GetMarketAnalysis, lines 258-259.
GetDeviation ==
    /\ analysis.pc = "called"
    /\ analysis' =
         Returns([stdDev |-> calculateStdDev(AsFloats(analysis.prices)),
                  volatility |-> calculateVolatility(AsFloats(analysis.prices))])
    /\ UNCHANGED outsideAnalysis

NextDeviation == GetDeviation

SpecDeviation == InitDeviation /\ [][NextDeviation]_vars

\* The period GetMarketAnalysis passes to calculateRSI (line 267).
RSIPeriod == 14

\* The loop of calculateRSI, lines 374-381, from the sample at position first
\* (counted from 1): what it adds to gains and to losses.
RECURSIVE Gains(_, _)
Gains(prices, first) ==
    IF first > Len(prices) THEN 0
    ELSE (IF prices[first] - prices[first - 1] > 0
          THEN prices[first] - prices[first - 1] ELSE 0)
         + Gains(prices, first + 1)

RECURSIVE Losses(_, _)
Losses(prices, first) ==
    IF first > Len(prices) THEN 0
    ELSE (IF prices[first] - prices[first - 1] > 0
          THEN 0 ELSE prices[first - 1] - prices[first])
         + Losses(prices, first + 1)

\* Lines 383-393.
RSIValue(gains, losses, period) ==
    LET avgGain == Div(Float(gains), Float(period))
        avgLoss == Div(Float(losses), Float(period)) IN
    IF avgLoss = Float(0) THEN Float(100)
    ELSE LET rs == Div(avgGain, avgLoss) IN
         Sub(Float(100), Div(Float(100), Add(Float(1), rs)))

\* calculateRSI with a loop over every change of the series, and calculateRSI
\* (lines 366-394).
calculateRSIMutant(prices, period) ==
    IF Len(prices) < period + 1 THEN Float(50)
    ELSE RSIValue(Gains(prices, 2), Losses(prices, 2), period)

calculateRSI(prices, period) ==
    IF Len(prices) < period + 1 THEN Float(50)
    ELSE RSIValue(Gains(prices, Len(prices) - period + 1),
                  Losses(prices, Len(prices) - period + 1), period)

\* The series the momentum is computed for: one sample, and one less, as many
\* and one more than the period needs, over two price levels.
RSILevels == {1, 2}

RSILengths == {1, RSIPeriod, RSIPeriod + 1, RSIPeriod + 2}

RSISeries == UNION {[1..n -> RSILevels] : n \in RSILengths}

InitRSI ==
    /\ OrdersIdle
    /\ StrategiesIdle
    /\ TraderIdle
    /\ HubIdle
    /\ DetectorIdle
    /\ PricesIdle
    /\ MarketIdle
    /\ \E prices \in RSISeries : analysis = Called(prices)

\* GetMarketAnalysis, line 267.
GetRSI ==
    /\ analysis.pc = "called"
    /\ analysis' = Returns(calculateRSI(analysis.prices, RSIPeriod))
    /\ UNCHANGED outsideAnalysis

NextRSI == GetRSI

SpecRSI == InitRSI /\ [][NextRSI]_vars

\* ------------------------------------------------------------------ claims

AllUsers == {Owner, Stranger}

AllQuantities == UNION {r.quantities : r \in Runs}

SellOrders == {o \in OrderIds : orders[o].type = "sell"}

\* The sell orders of an owner's item whose row says pending.
PendingSells(userID, itemID) ==
    {o \in SellOrders : /\ orders[o].user = userID
                        /\ orders[o].item = itemID
                        /\ orders[o].status = "pending"}

\* An unlocked row of the owner's item with at least the quantity exists.
Reservable(userID, itemID, quantity) ==
    \E r \in inventory : /\ r.user = userID
                         /\ r.item = itemID
                         /\ r.quantity >= quantity
                         /\ ~r.locked

\* A row of the owner's item with at least the quantity exists and is locked.
LockedMatch(userID, itemID, quantity) ==
    \E r \in inventory : /\ r.user = userID
                         /\ r.item = itemID
                         /\ r.quantity >= quantity
                         /\ r.locked

\* No request and no goroutine is between two statements on the owner's item.
Quiescent(userID, itemID) ==
    /\ \A c \in BagToSet(sellCalls) : ~(c.user = userID /\ c.item = itemID)
    /\ \A o \in OrderIds :
          (orders[o].user = userID /\ orders[o].item = itemID)
              => /\ cancelCalls[o].pc = "idle"
                 /\ exec[o].pc \in {"start", "done"}

\* C1: of two concurrent CreateSellOrder calls of one owner for one item that
\* both pass the check on the one unlocked row, at most one creates an order:
\* no two sell orders were created on the same single row with one of them
\* having taken its lock when the row was already locked.
C1_OneSellCreationWins ==
    \A o1, o2 \in SellOrders :
        (/\ o1 # o2
         /\ orders[o1].user = orders[o2].user
         /\ orders[o1].item = orders[o2].item
         /\ reservation[o1].rows = reservation[o2].rows
         /\ Cardinality(reservation[o1].rows) = 1)
            => ~(reservation[o1].relocked \/ reservation[o2].relocked)

\* C2: an order for which CancelOrder returned success is never completed and
\* no transaction is recorded for it.
C2_CancelWins ==
    \A o \in cancelledOk :
        /\ orders[o].status # "completed"
        /\ \A t \in transactions : t.order # o

\* C3: a status that is completed, failed or cancelled is never changed.
C3_TerminalIsFinal ==
    [][\A o \in OrderIds :
          orders[o].status \in Terminal => orders'[o].status = orders[o].status]_vars

\* C4: every locked inventory row is reserved by exactly one pending sell order
\* of its owner and item (stated for the states in which nothing is between
\* two statements on that owner's item).
C4_LockedHasOnePendingSell ==
    \A r \in inventory :
        (r.locked /\ Quiescent(r.user, r.item))
            => Cardinality(PendingSells(r.user, r.item)) = 1

\* The rows of an order's owner and item.
RowsOfOrder(inv, o) ==
    {r \in inv : r.user = orders[o].user /\ r.item = orders[o].item}

\* Another sell order of the same owner and item holds a reservation: it is
\* pending, or its creation has taken the lock and not yet returned.
HeldByAnother(o) ==
    \/ PendingSells(orders[o].user, orders[o].item) \ {o} # {}
    \/ \E c \in BagToSet(sellCalls) :
          /\ c.user = orders[o].user
          /\ c.item = orders[o].item
          /\ c.pc \in {"create", "unlock"}

\* C5: when a sell order's status becomes completed, failed or cancelled, no
\* row of its owner and item is left locked, other than for another sell
\* order's reservation.
C5_TerminalSellReleases ==
    [][\A o \in SellOrders :
          (orders[o].status = "pending" /\ orders'[o].status \in Terminal)
              => (\/ \A r \in RowsOfOrder(inventory, o)' : ~r.locked
                  \/ HeldByAnother(o)')]_vars

\* A sell order failed, its goroutine is done, and the row it had reserved is
\* there and unlocked.
C5_Witness ==
    \E o \in SellOrders :
        /\ orders[o].status = "failed"
        /\ exec[o].pc = "done"
        /\ \E r \in inventory : /\ ~r.locked
                                /\ \E s \in reservation[o].rows : s.id = r.id

\* C6: the transaction of a completed sell order has fee = price * quantity *
\* 0.025 and profit = (sell price - buy price recorded on the inventory the
\* order reserved) * quantity - fee.
C6_SellProfit ==
    \A t \in transactions :
        t.type = "sell" =>
            LET order == orders[t.order] IN
            /\ t.fee * 1000 = order.price * order.quantity * 1000 * 25
            /\ \E s \in reservation[t.order].rows :
                  t.profit = (order.price - s.buyPrice) * order.quantity * 1000
                             - t.fee

\* The goroutine of order o took the step that follows its connector switch.
Started(o) == exec[o].pc = "start" /\ exec'[o].pc # "start"

\* The goroutine of order o took its Save.
Saved(o) == exec[o].pc = "save" /\ exec'[o].pc = "done"

\* C7: when the connector call of a buy order succeeds, the inventory gains
\* exactly one row, of the order's owner, item, quantity, price (as buy price)
\* and venue, and the goroutine's Save writes completed with executedAt set.
C7_BuyCompletionCredits ==
    [][\A o \in OrderIds :
          (/\ orders[o].type = "buy"
           /\ ConnectorInvoked(orders[o])
           /\ ConnectorError(orders[o]) = NoError)
              => /\ Started(o) =>
                      /\ inventory \subseteq inventory'
                      /\ \E r \in inventory' \ inventory :
                            /\ inventory' \ inventory = {r}
                            /\ r.user = orders[o].user
                            /\ r.item = orders[o].item
                            /\ r.quantity = orders[o].quantity
                            /\ r.buyPrice = orders[o].price
                            /\ r.platform = orders[o].platform
                 /\ Saved(o) =>
                      /\ orders'[o].status = "completed"
                      /\ orders'[o].executed]_vars

\* In a run on a fresh database a buy order of quantity 2 at price 50 is
\* completed and its row is in the inventory.
C7_Witness ==
    /\ env.prior = 0
    /\ \E o \in OrderIds :
          /\ orders[o].type = "buy"
          /\ orders[o].price = 50
          /\ orders[o].quantity = 2
          /\ orders[o].status = "completed"
          /\ orders[o].executed
          /\ exec[o].pc = "done"
          /\ \E r \in inventory : r.quantity = 2 /\ r.buyPrice = 50

\* C8: when the connector call of a sell order fails, the rows of its owner and
\* item are unlocked with nothing else changed, so that a CreateSellOrder for a
\* quantity one of them covers passes its check; no transaction is ever
\* recorded for the order; and the goroutine's Save writes failed with a
\* non-empty reason.
C8_FailedSellReleases ==
    [][\A o \in SellOrders :
          ConnectorError(orders[o]) # NoError
              => /\ Started(o) =>
                      /\ inventory' = {IF r \in RowsOfOrder(inventory, o)
                                       THEN [r EXCEPT !.locked = FALSE]
                                       ELSE r : r \in inventory}
                      /\ \A q \in AllQuantities :
                            (\E r \in RowsOfOrder(inventory, o) : r.quantity >= q)
                                => CreateSellOrderError(orders[o].user,
                                                        orders[o].item, q)' = NoError
                 /\ Saved(o) =>
                      /\ orders'[o].status = "failed"
                      /\ orders'[o].failedReason # NoError
                 /\ \A t \in transactions' : t.order # o]_vars

\* A sell order failed with its reason recorded, and a sell order created
\* after it holds the same row, locked.
C8_Witness ==
    \E o1, o2 \in SellOrders :
        /\ o1 < o2
        /\ orders[o1].status = "failed"
        /\ orders[o1].failedReason = ErrUnsupportedPlatform
        /\ exec[o1].pc = "done"
        /\ orders[o2].status = "pending"
        /\ ~reservation[o2].relocked
        /\ reservation[o2].rows = reservation[o1].rows
        /\ \A r \in RowsOfOrder(inventory, o2) : r.locked

\* The CreateSellOrder calls that passed their check in this step.
EnteredCalls ==
    {c \in BagToSet(sellCalls') :
        c.pc = "lock" /\ CopiesIn(c, sellCalls') > CopiesIn(c, sellCalls)}

\* C9: a CreateSellOrder for which no unlocked row of the owner and item has
\* the quantity returns an error and goes no further than its check: it takes
\* no lock, creates no order and starts no goroutine.
C9_UnreservableSellRejected ==
    [][\A u \in AllUsers, i \in Items, q \in AllQuantities :
          ~Reservable(u, i, q)
              => /\ CreateSellOrderError(u, i, q) # NoError
                 /\ \A c \in EnteredCalls :
                       ~(c.user = u /\ c.item = i /\ c.quantity = q)]_vars

\* A CreateSellOrder of the owner would be rejected although a row with the
\* quantity exists: it is locked for a pending sell order.
C9_Witness ==
    /\ LockedMatch(Owner, 1, 1)
    /\ ~Reservable(Owner, 1, 1)
    /\ PendingSells(Owner, 1) # {}
    /\ CreateSellOrderError(Owner, 1, 1) = ErrInsufficientInventory

\* The error the specification names for a reservation that fails on a locked
\* row.
ErrAlreadyLocked == "already locked"

\* C10: a rejected CreateSellOrder reports AlreadyLocked, not
\* InsufficientInventory, when a row of the owner and item with the quantity
\* exists but is locked.
C10_DistinctConflictErrors ==
    \A u \in AllUsers, i \in Items, q \in AllQuantities :
        (LockedMatch(u, i, q) /\ ~Reservable(u, i, q))
            => CreateSellOrderError(u, i, q) = ErrAlreadyLocked

\* A CancelOrder call for order o passed its checks, unlocked, saved.
CancelEntered(o) == cancelCalls[o].pc = "idle" /\ cancelCalls'[o].pc # "idle"

CancelUnlocked(o) == cancelCalls[o].pc = "unlock" /\ cancelCalls'[o].pc = "save"

CancelSaved(o) == cancelCalls[o].pc = "save" /\ cancelCalls'[o].pc = "idle"

\* C11: CancelOrder returns an error for an order that does not exist, is
\* owned by another user or is not pending (a rejected call writes nothing);
\* a call goes on only for a pending order of the caller, and then unlocks the
\* rows of a sell order's owner and item, changing nothing else, and saves the
\* status cancelled.
C11_CancelOnlyOwnPending ==
    [][/\ \A o \in 1..(Len(orders) + 1), u \in AllUsers :
             (\/ o \notin OrderIds
              \/ orders[o].user # u
              \/ orders[o].status # "pending")
                 => CancelOrderError(o, u) # NoError
       /\ \A o \in OrderIds :
             /\ CancelEntered(o) =>
                    /\ orders[o].status = "pending"
                    /\ cancelCalls'[o].caller = orders[o].user
                    /\ (orders[o].type = "sell") = (cancelCalls'[o].pc = "unlock")
                    /\ UNCHANGED <<orders, inventory>>
             /\ CancelUnlocked(o) =>
                    /\ inventory' = {IF r \in RowsOfOrder(inventory, o)
                                     THEN [r EXCEPT !.locked = FALSE]
                                     ELSE r : r \in inventory}
                    /\ UNCHANGED orders
             /\ CancelSaved(o) =>
                    /\ orders'[o].status = "cancelled"
                    /\ UNCHANGED inventory]_vars

\* A sell order of the owner was cancelled by a call that returned nil, the
\* row it had reserved is there and unlocked, and further calls for it are
\* rejected: the owner's because it is not pending, a stranger's because it is
\* not theirs.
C11_Witness ==
    \E o \in SellOrders :
        /\ o \in cancelledOk
        /\ orders[o].status = "cancelled"
        /\ cancelCalls[o].pc = "idle"
        /\ \E r \in inventory : /\ ~r.locked
                                /\ \E s \in reservation[o].rows : s.id = r.id
        /\ CancelOrderError(o, orders[o].user) = ErrNotCancellable
        /\ \E u \in AllUsers : CancelOrderError(o, u) = ErrUnauthorized

\* The goroutines of a strategy that have not returned.
RunningTasks(strategyID) ==
    {t \in TaskIds : tasks[t].strategy = strategyID /\ tasks[t].pc # "returned"}

\* C14: at most one runStrategy goroutine is running for a strategy, whatever
\* ActivateStrategy and DeactivateStrategy calls were made.
C14_OneExecutorPerStrategy ==
    \A s \in StrategyIds : Cardinality(RunningTasks(s)) <= 1

\* C15: a goroutine for whose strategy DeactivateStrategy has returned since it
\* was started does not evaluate the strategy any more.
C15_NoEvaluationAfterDeactivate ==
    \A t \in TaskIds : ~tasks[t].evaluatedLate

\* C12: every persisted order and every persisted trade has price > 0 and
\* quantity >= 1.
C12_PersistedPositive ==
    /\ \A o \in OrderIds : orders[o].price > 0 /\ orders[o].quantity >= 1
    /\ \A t \in TradeIds : trades[t].price > 0 /\ trades[t].quantity >= 1

\* C13: no order for a venue the service does not support is persisted, in
\* any status.
C13_NoUnsupportedVenuePersisted ==
    \A o \in OrderIds : ConnectorError(orders[o]) # ErrUnsupportedPlatform

\* The ExecuteStrategy calls for a strategy that are between two statements.
EvaluationsUnderWay(strategyID) ==
    BagCardinality([e \in {x \in BagToSet(apiEvals) : x.strategy = strategyID}
                       |-> CopiesIn(e, apiEvals)])
        + (IF loop.pc = "evaluate" /\ loop.eval.strategy = strategyID
           THEN 1 ELSE 0)

\* C16: at most one evaluation of a strategy is under way at a time, whether
\* started by the periodic loop or by the API.
C16_EvaluationsSerialized ==
    \A s \in TraderStrategyIds : EvaluationsUnderWay(s) <= 1

\* The trade t is saved as failed in this step.
TradeFails(t) == trades[t].status = "pending" /\ trades'[t].status = "failed"

\* C17: a trade that fails stops nothing.  In the step that saves it as failed
\* the strategies table is unchanged and the evaluation goes on to its next
\* signal; when it was the last signal, the call of the API returns and the
\* loop goes on to the next strategy of its round; and the loop starts a new
\* round again and again.
C17_FailureStopsNothing ==
    /\ [][\A t \in TradeIds : TradeFails(t) =>
             /\ traderStrategies' = traderStrategies
             /\ \A e \in BagToSet(apiEvals) : e.trade = t =>
                   IF Len(e.signals) > 1
                   THEN BagIn([e EXCEPT !.signals = Tail(e.signals),
                                        !.trade = 0], apiEvals')
                   ELSE BagCardinality(apiEvals') = BagCardinality(apiEvals) - 1
             /\ (loop.pc = "evaluate" /\ loop.eval.trade = t) =>
                   IF Len(loop.eval.signals) > 1
                   THEN /\ loop'.pc = "evaluate"
                        /\ loop'.eval.signals = Tail(loop.eval.signals)
                        /\ loop'.eval.trade = 0
                   ELSE /\ loop'.pc = "next"
                        /\ loop'.queue = Tail(loop.queue)]_vars
    /\ []<>(loop.pc = "query")

\* The first trade of an evaluation of the loop failed, and the loop is about
\* to create the trade of that evaluation's second signal.
C17_Witness ==
    /\ loop.pc = "evaluate"
    /\ loop.eval.trade = 0
    /\ Len(loop.eval.signals) = 1
    /\ Head(loop.eval.signals).action = "sell"
    /\ trades # <<>>
    /\ trades[Len(trades)].status = "failed"
    /\ trades[Len(trades)].type = "buy"
    /\ traderStrategies[loop.eval.strategy].isActive

\* The client the hub's loop serves in this step, if the step is one.
Served == IF hub'.pc = "fanout" THEN hub.todo \ hub'.todo ELSE hub.todo

HubServes(c) == hub.pc = "fanout" /\ hub' # hub /\ c \in Served

\* C18: in each step of the hub's loop over its clients, a client whose send
\* channel has room gets the message appended and stays registered and open,
\* and a client whose channel is full is closed and removed from the clients
\* with its buffer as it was; after the last client the hub is at its select
\* again.  No step of the loop waits: with the hub scheduled, a loop that was
\* started ends and a publisher waiting at hub.broadcast is received, whatever
\* is in the clients' buffers, as long as the process lives.
C18_PublishNeverWaits ==
    /\ [][\A c \in ClientIds : HubServes(c) =>
            /\ IF Len(clients[c].send) < SendCap
               THEN /\ clients'[c].send = Append(clients[c].send, hub.msg)
                    /\ ~clients'[c].closed
                    /\ c \in hub'.clients
               ELSE /\ clients'[c].send = clients[c].send
                    /\ clients'[c].closed
                    /\ c \notin hub'.clients
            /\ \A d \in ClientIds \ {c} : clients'[d] = clients[d]
            /\ (hub.todo = {c}) = (hub'.pc = "select")
            /\ pending' = pending]_vars
    /\ (hub.pc = "fanout") ~> (hub.pc = "select" \/ crashed)
    /\ \A seq \in 1..MaxMessages :
         (\E m \in pending : m.seq = seq) ~>
             ((\E i \in 1..Len(published) : published[i].seq = seq) \/ crashed)

\* Two messages were published and their loops are over: the client holds
\* the first, for which its buffer had room, and was closed and removed for
\* the second, which found the buffer full, while its readPump is still
\* reading; no publisher waits.
C18_Witness ==
    /\ hub.pc = "select"
    /\ pending = {}
    /\ ~crashed
    /\ Len(published) > 1
    /\ \E c \in ClientIds :
         /\ clients[c].send = <<published[1]>>
         /\ c \notin hub.clients
         /\ clients[c].closed
         /\ clients[c].reader = "reading"

\* The messages the hub was given: those it received and those whose
\* publishers wait at hub.broadcast.
HubMessages == pending \cup {published[i] : i \in 1..Len(published)}

\* C19: an order of this run whose status was changed to completed, failed or
\* cancelled, and on which no executeBuyOrder, executeSellOrder or CancelOrder
\* is at work any more, has an order_update message that carries it among the
\* messages given to the hub.
C19_StatusChangePublished ==
    \A o \in OrderIds :
        /\ o > env.prior
        /\ orders[o].status \in Terminal
        /\ exec[o].pc = "done"
        /\ cancelCalls[o].pc = "idle"
        => \E m \in HubMessages : m.type = "order_update" /\ m.order = o

\* The pairs of platforms the opportunities name, and the pairs that qualify:
\* different platforms, the first cheaper, and the gain at least
\* minProfitPercent hundredths of the buy price.
Reported ==
    {<<detector.opportunities[i].buyPlatform,
       detector.opportunities[i].sellPlatform>> :
         i \in 1..Len(detector.opportunities)}

Qualifying ==
    {pair \in (DOMAIN detector.prices) \X (DOMAIN detector.prices) :
        /\ pair[1] # pair[2]
        /\ detector.prices[pair[1]] < detector.prices[pair[2]]
        /\ (detector.prices[pair[2]] - detector.prices[pair[1]]) * 100
             >= detector.minProfitPercent * detector.prices[pair[1]]}

WorkedExample == [p \in {"steam", "buff"} |-> IF p = "steam" THEN 100 ELSE 112]

\* C20: what GetArbitrageOpportunities returns for an item names exactly the
\* qualifying pairs, each once, each with the two prices and their difference
\* as profit, and no pair in both directions; for the prices 100 and 112 on
\* two platforms it is the one opportunity (buy at 100, sell at 112, profit
\* 12, 12 percent) with minProfitPercent 10 and nothing with 15.
C20_ArbitrageOpportunities ==
    detector.pc = "done" =>
        /\ Reported = Qualifying
        /\ Len(detector.opportunities) = Cardinality(Reported)
        /\ \A i \in 1..Len(detector.opportunities) :
             LET o == detector.opportunities[i] IN
             /\ o.buyPrice = detector.prices[o.buyPlatform]
             /\ o.sellPrice = detector.prices[o.sellPlatform]
             /\ o.profit = o.sellPrice - o.buyPrice
             /\ <<o.sellPlatform, o.buyPlatform>> \notin Reported
        /\ detector.prices = WorkedExample =>
             /\ detector.minProfitPercent = 10 =>
                  detector.opportunities =
                      <<[buyPlatform |-> "steam", sellPlatform |-> "buff",
                         buyPrice |-> 100, sellPrice |-> 112, profit |-> 12,
                         profitPercent |-> Finite(12)]>>
             /\ detector.minProfitPercent = 15 => detector.opportunities = <<>>

\* The call for the prices 100 and 112 with minProfitPercent 10 has returned
\* its one opportunity.
C20_Witness ==
    /\ detector.pc = "done"
    /\ detector.prices = WorkedExample
    /\ detector.minProfitPercent = 10
    /\ Len(detector.opportunities) = 1

\* The prices of a GetArbitrageOpportunities call as the map that
\* GetItemPrices hands to analyzePrices.
AsQuote(prices) ==
    [v \in Platforms |-> IF v \in DOMAIN prices THEN prices[v] ELSE NoQuote]

\* C21: for the same prices the spread gate of analyzePrices passes exactly
\* when GetArbitrageOpportunities with minProfitPercent 10 returns the
\* opportunity that buys at the least price and sells at the greatest.
C21_GateAgreesWithDetector ==
    detector.pc = "done" /\ detector.minProfitPercent = 10 =>
        LET quote == AsQuote(detector.prices) IN
        SpreadGate(MinPrice(quote), MaxPrice(quote))
            <=> \E i \in 1..Len(detector.opportunities) :
                    /\ detector.opportunities[i].buyPrice = MinPrice(quote)
                    /\ detector.opportunities[i].sellPrice = MaxPrice(quote)

\* C22: what GetLatestPrices returned names, for every platform that had a
\* row in the table it read, a row of that platform that no other row of the
\* platform it read is newer than.
C22_LatestPerVenue ==
    latestResult.called =>
        /\ DOMAIN latestResult.rows =
               {priceRows[i].platform : i \in 1..latestResult.read}
        /\ \A v \in DOMAIN latestResult.rows :
             \A i \in 1..latestResult.read :
                 priceRows[i].platform = v =>
                     priceRows[i].timestamp
                         <= priceRows[latestResult.rows[v]].timestamp

\* C24: the prices table holds at most one row for a platform and a
\* timestamp, however often a point was recorded.
C24_RecordIdempotent ==
    \A i, j \in PriceIds :
        /\ priceRows[i].platform = priceRows[j].platform
        /\ priceRows[i].timestamp = priceRows[j].timestamp
        => i = j

\* C25: every row of the prices table has a price above 0 and a volume of at
\* least 0.
C25_PointsValid ==
    \A i \in PriceIds : priceRows[i].price > 0 /\ priceRows[i].volume >= 0

\* C23: when no UpdateItemPrice call is between its statements, the item's
\* current price is the price of the newest history row and, if a price is
\* cached, the cached price; and the price GetRealtimePrice last returned is
\* the price of some history row.
C23_CacheAtomicWithHistory ==
    /\ updateCalls = EmptyBag =>
           /\ currentPrice = priceHistory[Len(priceHistory)]
           /\ cache # NoPrice => cache = currentPrice
    /\ observed # NoPrice =>
           \E i \in 1..Len(priceHistory) : priceHistory[i] = observed

\* The last TrendWindow samples of the series of the call, and how many of
\* them are above, or below, the sample before them in that window.
Recent ==
    [i \in 1..TrendWindow |->
        analysis.prices[Len(analysis.prices) - TrendWindow + i]]

Increases == Cardinality({i \in 2..TrendWindow : Recent[i] > Recent[i - 1]})

Decreases == Cardinality({i \in 2..TrendWindow : Recent[i] < Recent[i - 1]})

RECURSIVE SquaresOf(_, _)
SquaresOf(xs, i) ==
    IF i > Len(xs) THEN Float(0)
    ELSE Add(Mul(xs[i], xs[i]), SquaresOf(xs, i + 1))

MeanSquaredDeviation(xs) ==
    Sub(Div(SquaresOf(xs, 1), Float(Len(xs))),
        Mul(Div(SumOf(xs, 1), Float(Len(xs))), Div(SumOf(xs, 1), Float(Len(xs)))))

IsStdDevOf(x, xs) ==
    IsFinite(x) /\ x.num >= 0 /\ Mul(x, x) = MeanSquaredDeviation(xs)

PeriodReturns(series) ==
    [i \in 1..(Len(series) - 1) |->
        Div(Float(series[i + 1] - series[i]), Float(series[i]))]

\* C27: the std_dev returned for a series is the square root of its mean
\* squared deviation from the mean, 2 for the series 0, 4; and the volatility
\* of a series of two or more positive prices is the same of its returns.
C27_StdDevIsRoot ==
    analysis.pc = "done" =>
        /\ IsStdDevOf(analysis.result.stdDev, AsFloats(analysis.prices))
        /\ analysis.prices = <<0, 4>> => analysis.result.stdDev = Float(2)
        /\ (/\ Len(analysis.prices) >= 2
            /\ \A i \in 1..Len(analysis.prices) : analysis.prices[i] > 0)
           => IsStdDevOf(analysis.result.volatility,
                         PeriodReturns(analysis.prices))

\* The last RSIPeriod changes of the series of the call, and the sum of those
\* of one sign.
LastChanges ==
    [i \in 1..RSIPeriod |->
        analysis.prices[Len(analysis.prices) - RSIPeriod + i]
            - analysis.prices[Len(analysis.prices) - RSIPeriod + i - 1]]

RECURSIVE SumUp(_, _, _)
SumUp(changes, sign, i) ==
    IF i = 0 THEN 0
    ELSE (IF changes[i] * sign > 0 THEN changes[i] * sign ELSE 0)
         + SumUp(changes, sign, i - 1)

\* C28: the RSI of a series of fewer than RSIPeriod + 1 samples is 50; of a
\* longer one it is between 0 and 100 and is decided by the last RSIPeriod
\* changes alone: 100 when none of them is a fall, otherwise 100 times the
\* share of the rises in the sum of rises and falls.
C28_RSIValue ==
    analysis.pc = "done" =>
        IF Len(analysis.prices) < RSIPeriod + 1
        THEN analysis.result = Float(50)
        ELSE LET rises == SumUp(LastChanges, 1, RSIPeriod)
                 falls == SumUp(LastChanges, -1, RSIPeriod) IN
             /\ IsFinite(analysis.result)
             /\ analysis.result.num >= 0
             /\ analysis.result.num <= 100 * analysis.result.den
             /\ analysis.result = IF falls = 0 THEN Float(100)
                                  ELSE Frac(100 * rises, rises + falls)

\* The RSI of a series with a change before its last RSIPeriod changes was
\* returned, and is neither an end of the range nor the neutral value.
C28_Witness ==
    /\ analysis.pc = "done"
    /\ Len(analysis.prices) = RSIPeriod + 2
    /\ analysis.prices[1] # analysis.prices[2]
    /\ analysis.result \notin {Float(0), Float(50), Float(100)}

\* ------------------------------------------- evaluation of inactive strategies

\* The row a task's tick reads at lines 284-287 is gone or is not active.
ReadsInactive(t) ==
    \/ strategies[tasks[t].strategy].deleted
    \/ strategies[tasks[t].strategy].status # "active"

AllOrderIds == 1..(MaxOrders + CHOOSE n \in {r.prior : r \in Runs} :
                                   \A r \in Runs : r.prior <= n)

\* A step of the goroutine that CreateBuyOrder (line 64) or CreateSellOrder
\* (line 98) started for order o.
ExecStep(o) ==
    /\ o \in OrderIds
    /\ \/ ExecBuyStart(o)
       \/ ExecSellStart(o)
       \/ ExecSellTransaction(o)
       \/ ExecSave(o)

\* A step of a CancelOrder call for order o that passed its checks.
CancelStep(o) ==
    /\ o \in OrderIds
    /\ CancelUnlock(o) \/ CancelSave(o)

\* The Go scheduler runs every goroutine that can run, and the database
\* answers: an execute...Order goroutine and a CancelOrder call under way take
\* their next step.
SpecFair ==
    /\ Spec
    /\ \A o \in AllOrderIds : WF_vars(ExecStep(o)) /\ WF_vars(CancelStep(o))

\* The first half of C30: under fair scheduling every order persisted as
\* pending eventually is completed, failed or cancelled.
PendingResolved ==
    \A o \in AllOrderIds :
        (o \in OrderIds /\ orders[o].status = "pending")
            ~> (o \in OrderIds /\ orders[o].status \in Terminal)

\* The goroutine of order o is at the switch of lines 152-165 / 190-203 and the
\* switch calls the connector function of the order's venue.
ConnectorCalled(o) == exec[o].pc = "start" /\ ConnectorInvoked(orders[o])

TransactionsOf(o) == {t \in transactions : t.order = o}

\* Nothing is under way for order o: its goroutine has saved and no
\* CancelOrder call is between its read and its Save.
Settled(o) == exec[o].pc = "done" /\ cancelCalls[o].pc = "idle"

\* C32: each order has at most one transaction, and a transaction exists only
\* for an order whose persisted status is completed (stated for the orders on
\* which no goroutine and no call is under way).
C32_TransactionOnlyCompleted ==
    \A o \in OrderIds :
        Settled(o)
            => /\ Cardinality(TransactionsOf(o)) <= 1
               /\ TransactionsOf(o) # {} => orders[o].status = "completed"

\* ------------------------------------------------------- debit on completion

\* The total quantity of the rows in a set of inventory rows.
RECURSIVE QuantityOf(_)
QuantityOf(rows) ==
    IF rows = {} THEN 0
    ELSE LET r == CHOOSE x \in rows : TRUE IN
         r.quantity + QuantityOf(rows \ {r})

\* C33: when a sell order of quantity q completes, the total quantity of its
\* owner's item decreases by exactly q: in the step of the order's goroutine
\* that follows a successful connector switch, the rows of the owner's item
\* lose q in total.
C33_DebitExactQuantity ==
    [][\A o \in SellOrders :
          (Started(o) /\ ConnectorError(orders[o]) = NoError)
              => QuantityOf(RowsOfOrder(inventory, o)')
                     = QuantityOf(RowsOfOrder(inventory, o)) - orders[o].quantity]_vars

\* ------------------------------------------------- reservations of pending sells

\* The rows of the inventory that the CreateSellOrder call of sell order o
\* found unlocked at its check and locked.
ReservedRows(o) ==
    {r \in inventory : \E s \in reservation[o].rows : s.id = r.id}

\* Sell order o is pending and neither its goroutine nor a CancelOrder call
\* for it has begun to finish it.
HoldsReservation(o) ==
    /\ orders[o].status = "pending"
    /\ exec[o].pc = "start"
    /\ cancelCalls[o].pc = "idle"

\* C36: while a sell order is pending, the inventory it reserved stays locked;
\* the failure or the cancellation of another sell order of the same owner and
\* item never unlocks it.
C36_ReservationStaysLocked ==
    \A o \in SellOrders :
        HoldsReservation(o) => \A r \in ReservedRows(o) : r.locked

\* ------------------------------------------------- completion needs the venue

\* C37: an order is completed, and a transaction recorded for it, only if the
\* connector of its venue was invoked and returned success; an order for a
\* venue whose connector the configuration disables is never completed.
C37_CompletedOnlyByConnector ==
    \A o \in OrderIds :
        (orders[o].status = "completed" \/ TransactionsOf(o) # {})
            => /\ ConnectorInvoked(orders[o])
               /\ ConnectorError(orders[o]) = NoError

\* ------------------------------------------------ CreateSellOrder, failed Create

\* The CreateSellOrder call c took a step: one copy of it left the calls under
\* way.
CallStepped(c) == CopiesIn(c, sellCalls') < CopiesIn(c, sellCalls)

\* The call c stands before db.Create and the Create fails in this step: the
\* call steps and no order is inserted.
CreateFailed(c) ==
    c.pc = "create" /\ CallStepped(c) /\ Len(orders') = Len(orders)

\* The call c, whose Create failed, unlocks and returns in this step.
FailedCallReturns(c) == c.pc = "unlock" /\ CallStepped(c)

\* C40: when persisting the sell order fails after the lock was taken,
\* CreateSellOrder creates no order and starts no goroutine, goes on to the
\* unlock and returns: after it the rows of the owner's item are unlocked and
\* otherwise as they were, every other row is untouched, one call less is
\* under way, and a call with the same arguments passes its inventory check
\* if the row the failed call had found is still there.
C40_FailedCreateReleases ==
    [][\A c \in BagToSet(sellCalls) :
          /\ CreateFailed(c)
                => /\ CopiesIn([c EXCEPT !.pc = "unlock"], sellCalls')
                          > CopiesIn([c EXCEPT !.pc = "unlock"], sellCalls)
                   /\ UNCHANGED <<orders, exec, inventory>>
          /\ FailedCallReturns(c)
                => /\ UNCHANGED <<orders, exec>>
                   /\ BagCardinality(sellCalls')
                          = BagCardinality(sellCalls) - 1
                   /\ inventory' =
                          {IF r.user = c.user /\ r.item = c.item
                           THEN [r EXCEPT !.locked = FALSE]
                           ELSE r : r \in inventory}
                   /\ (\E r \in inventory, s \in c.seen : s.id = r.id)
                          => CreateSellOrderError(c.user, c.item,
                                                  c.quantity)' = NoError]_vars

\* The Create of a CreateSellOrder call has failed: the call holds the lock on
\* the row it found, no sell order exists, and the call is about to unlock.
C40_Witness ==
    \E c \in BagToSet(sellCalls) :
        /\ c.pc = "unlock"
        /\ SellOrders = {}
        /\ \E r \in inventory : r.locked /\ \E s \in c.seen : s.id = r.id

\* ------------------------------------------------------ signals and trades

\* The ExecuteStrategy calls that are past line 57 and hold signals.
UnderWay ==
    BagToSet(apiEvals) \cup (IF loop.pc = "evaluate" THEN {loop.eval} ELSE {})

\* The call of the API holding e, or the loop's call, took a step.
ApiEvalSteps(e) == CopiesIn(e, apiEvals') < CopiesIn(e, apiEvals)

LoopEvalSteps == loop.pc = "evaluate" /\ loop' # loop

\* The step appends the trade of e's first signal, as pending.
TradeCreated(e) ==
    /\ Len(trades') = Len(trades) + 1
    /\ SubSeq(trades', 1, Len(trades)) = trades
    /\ trades'[Len(trades')] = NewTrade(e)
    /\ trades'[Len(trades')].status = "pending"

\* The step creates no trade and the call goes on without e's first signal.
SignalDropped(e, stepped) ==
    /\ trades' = trades
    /\ stepped = [e EXCEPT !.signals = Tail(e.signals)]

\* The step saves e's trade as completed or failed and the call goes on
\* without the signal of that trade.
TradeSaved(e, stepped) ==
    /\ trades'[e.trade].status \in {"completed", "failed"}
    /\ \A t \in TradeIds \ {e.trade} : trades'[t] = trades[t]
    /\ Len(trades') = Len(trades)
    /\ stepped = [e EXCEPT !.signals = Tail(e.signals), !.trade = 0]

\* What the call holding e holds after the step: the evaluation it goes on
\* with, or one without signals when it has returned.
ApiStepped(e) ==
    IF BagCardinality(apiEvals') < BagCardinality(apiEvals)
    THEN [e EXCEPT !.signals = <<>>, !.trade = 0]
    ELSE CHOOSE x \in BagToSet(apiEvals') :
             CopiesIn(x, apiEvals') > CopiesIn(x, apiEvals)

LoopStepped ==
    IF loop'.pc = "evaluate" THEN loop'.eval
    ELSE [loop.eval EXCEPT !.signals = <<>>, !.trade = 0]

HeldByEvaluation(t) ==
    /\ Cardinality({e \in UnderWay : e.trade = t}) = 1
    /\ \A e \in UnderWay : e.trade = t => trades[t] = NewTrade(e)

\* What an evaluation does with the signal it stands at: without a trade it
\* creates the trade as pending, or db.Create fails and it goes on to the next
\* signal; with the trade it saves the trade and goes on.
SignalHandled(e, steps, stepped) ==
    steps => IF e.trade = 0
             THEN \/ TradeCreated(e) /\ stepped = [e EXCEPT !.trade = Len(trades')]
                  \/ SignalDropped(e, stepped)
             ELSE TradeSaved(e, stepped)

SpecHubPumps ==
    /\ SpecHubFair
    /\ \A c \in ClientIds :
          /\ SF_vars(HubUnregister(c))
          /\ WF_vars(ReaderError(c) /\ clients[c].connClosed)
          /\ WF_vars(ReaderPong(c))
          /\ WF_vars(WriterTake(c))
          /\ WF_vars(WriterClosed(c))

\* The connection of subscriber c has failed: a pump has closed it, or
\* ReadMessage has returned an error (the peer is gone, or the read deadline
\* passed without a pong).
ConnectionFailed(c) ==
    clients[c].connClosed \/ clients[c].reader = "unregistering"

\* Subscriber c is out of the hub's clients, its send channel is closed and
\* both its pumps have returned.
Gone(c) ==
    /\ c \notin hub.clients
    /\ clients[c].closed
    /\ clients[c].reader = "done"
    /\ clients[c].writer = "done"

C35_NoSendAfterClose ==
    /\ hub.pc = "fanout" => \A c \in hub.todo : ~clients[c].closed
    /\ ~crashed

\* ------------------------------------------------- clients and their channels

\* The hub ran its register case for c.
Registered(c) == clients[c].phase = "running"

\* The hub's unregister case runs for c in this step: readPump's deferred send
\* is received.
Unregisters(c) ==
    clients[c].reader = "unregistering" /\ clients'[c].reader = "done"

\* C38: a registered client is among the hub's clients exactly when its send
\* channel is open; the channel is closed once, in the step that removes the
\* client (the unregister case or the full-buffer drop), and never reopened;
\* an unregistration that arrives after the drop closes nothing, removes
\* nothing and does not end the process.
C38_InSetIffOpen ==
    /\ [](\A c \in ClientIds :
             /\ Registered(c) => (c \in hub.clients <=> ~clients[c].closed)
             /\ ~Registered(c) => c \notin hub.clients /\ ~clients[c].closed)
    /\ [][\A c \in ClientIds :
             /\ clients[c].closed => clients'[c].closed
             /\ (~clients[c].closed /\ clients'[c].closed)
                   <=> (c \in hub.clients /\ c \notin hub'.clients)
             /\ (Unregisters(c) /\ c \notin hub.clients)
                   => /\ hub' = hub
                      /\ clients'[c].closed = clients[c].closed
                      /\ clients'[c].send = clients[c].send
                      /\ crashed' = crashed]_vars

\* The hub has dropped a client for a full buffer, and the client's readPump
\* waits with its unregistration.
C38_Witness ==
    \E c \in ClientIds :
        /\ Registered(c)
        /\ c \notin hub.clients
        /\ clients[c].closed
        /\ clients[c].reader = "unregistering"
        /\ hub.pc = "select"
        /\ ~crashed

\* ------------------------------------------------------ order of the messages

\* The broadcast messages in a client's send channel, oldest first (the pong
\* replies of readPump share the channel).
Broadcasts(queue) == SelectSeq(queue, LAMBDA m : m # Pong)

\* The broadcast messages that were enqueued for client c so far: those
\* writePump has taken and those still in the channel.
Enqueued(c) == clients[c].wrote \o Broadcasts(clients[c].send)

\* The hub's loop still has to offer its message to client c.
Awaits(c) == hub.pc = "fanout" /\ c \in hub.todo

====
